---------------------------- MODULE Spec2Model ----------------------------
(***************************************************************************)
(* LocalSequenceDiagrams: the script parser (parseScriptToArrays) and the  *)
(* layout engine (calculatePlacements) of the LocalSequenceDiagrams class. *)
(*                                                                         *)
(* A JavaScript string is a sequence of one-character strings, so that     *)
(* trim, indexOf, slice, split, startsWith ... are computed as the code    *)
(* computes them.  The JavaScript value undefined is the value Undef.      *)
(* A JavaScript object is a record with the fields the code gives it, an   *)
(* array is a sequence.  A reference to an array or object of the event    *)
(* tree (an entry of eventStack) is the path that leads to it from the     *)
(* root events array.                                                      *)
(***************************************************************************)
EXTENDS Integers, Sequences, FiniteSets, TLC

VARIABLES script, actors, events, eventStack, raised, canvas, drawn, pc, profile

\* the editor webview of the extension and its host
VARIABLES editorValue, diagram, seqDiagram, document, theme, toWebview, toHost

webview == <<editorValue, diagram, seqDiagram, document, theme, toWebview, toHost>>

vars == <<script, actors, events, eventStack, raised, canvas, drawn, pc, profile,
          editorValue, diagram, seqDiagram, document, theme, toWebview, toHost>>

---------------------------------------------------------------------------
(* JavaScript values and string primitives *)

Undef == <<"undefined">>

\* JavaScript truthiness of a value that is a string or undefined
Truthy(s) == s # Undef /\ s # <<>>

\* Destructuring [a, b, c] = parts: a missing element is undefined
At(parts, i) == IF i <= Len(parts) THEN parts[i] ELSE Undef

\* String.prototype.indexOf for a one-character needle (0-based, -1 if absent)
indexOf(s, c) ==
    IF \E i \in 1..Len(s) : s[i] = c
    THEN (CHOOSE i \in 1..Len(s) : s[i] = c /\ \A j \in 1..(i-1) : s[j] # c) - 1
    ELSE -1

\* String.prototype.slice(a, b) and slice(a), for 0 <= a
slice(s, a, b) == SubSeq(s, a + 1, b)
sliceFrom(s, a) == SubSeq(s, a + 1, Len(s))

IsSpace(c) == c \in {" ", "\t", "\n", "\r"}

RECURSIVE trimStart(_)
trimStart(s) == IF s # <<>> /\ IsSpace(Head(s)) THEN trimStart(Tail(s)) ELSE s

RECURSIVE trimEnd(_)
trimEnd(s) ==
    IF s # <<>> /\ IsSpace(s[Len(s)]) THEN trimEnd(SubSeq(s, 1, Len(s) - 1)) ELSE s

\* String.prototype.trim
trim(s) == trimEnd(trimStart(s))

\* mutant of endsWith: looks at the start of the string
endsWithAtStart(s, p) == Len(p) <= Len(s) /\ SubSeq(s, 1, Len(p)) = p

\* mutant of startsWith: no prefix is ever found
startsWithNever(s, p) == FALSE

startsWith(s, p) == Len(p) <= Len(s) /\ SubSeq(s, 1, Len(p)) = p
endsWith(s, p) == Len(p) <= Len(s) /\ SubSeq(s, Len(s) - Len(p) + 1, Len(s)) = p

RECURSIVE splitAcc(_, _, _)
splitAcc(s, sep, cur) ==
    IF s = <<>> THEN <<cur>>
    ELSE IF startsWith(s, sep)
         THEN <<cur>> \o splitAcc(sliceFrom(s, Len(sep)), sep, <<>>)
         ELSE splitAcc(Tail(s), sep, Append(cur, Head(s)))

\* String.prototype.split(sep) for a non-empty separator
split(s, sep) == splitAcc(s, sep, <<>>)

\* str.replace(/"/g, '')
RECURSIVE removeQuotes(_)
removeQuotes(s) ==
    IF s = <<>> THEN <<>>
    ELSE IF Head(s) = "\"" THEN removeQuotes(Tail(s))
         ELSE <<Head(s)>> \o removeQuotes(Tail(s))

\* Array.prototype.includes
includes(list, v) == \E i \in 1..Len(list) : list[i] = v

\* Array.prototype.pop on the stack: popping an empty array leaves it empty
pop(stack) == IF stack = <<>> THEN <<>> ELSE SubSeq(stack, 1, Len(stack) - 1)

---------------------------------------------------------------------------
(* Keyword commands *)

kwEnd == <<"e","n","d">>
kwElse == <<"e","l","s","e">>
kwBrace == <<"}">>
kwAutonumber == <<"a","u","t","o","n","u","m","b","e","r">>
kwParticipant == <<"p","a","r","t","i","c","i","p","a","n","t">>
kwActor == <<"a","c","t","o","r">>
kwNote == <<"n","o","t","e">>
kwRef == <<"r","e","f">>
kwState == <<"s","t","a","t","e">>
kwParallel == <<"p","a","r","a","l","l","e","l">>
kwSerial == <<"s","e","r","i","a","l">>
kwActivate == <<"a","c","t","i","v","a","t","e">>
kwDeactivate == <<"d","e","a","c","t","i","v","a","t","e">>
kwDestroy == <<"d","e","s","t","r","o","y">>
kwAlt == <<"a","l","t">>
kwOpt == <<"o","p","t">>
kwLoop == <<"l","o","o","p">>
kwPar == <<"p","a","r">>
kwSeq == <<"s","e","q">>
kwSignal == <<"s","i","g","n","a","l">>

participants == <<kwParticipant, kwActor>>
annotations == <<kwNote, kwRef, kwState>>
synchrony == <<kwParallel, kwSerial>>
lifetime == <<kwActivate, kwDeactivate, kwDestroy>>
conditionalGroupings == <<kwAlt, kwOpt, kwLoop, kwPar, kwSeq>>

---------------------------------------------------------------------------
(* References into the event tree.  A path alternates an index into an    *)
(* events array with an index into the cases of the grouping found there   *)
(* (1 for the single events array of a synchrony grouping): a path of even *)
(* length leads to an array, a path of odd length to an event object.      *)

RECURSIVE GetInArr(_, _), GetInEv(_, _)
GetInArr(arr, path) ==
    IF path = <<>> THEN arr ELSE GetInEv(arr[path[1]], Tail(path))
GetInEv(e, path) ==
    IF path = <<>> THEN e
    ELSE IF "cases" \in DOMAIN e
         THEN GetInArr(e.cases[path[1]].events, Tail(path))
         ELSE GetInArr(e.events, Tail(path))

RECURSIVE SetInArr(_, _, _), SetInEv(_, _, _)
SetInArr(arr, path, v) ==
    IF path = <<>> THEN v
    ELSE [arr EXCEPT ![path[1]] = SetInEv(@, Tail(path), v)]
SetInEv(e, path, v) ==
    IF path = <<>> THEN v
    ELSE IF "cases" \in DOMAIN e
         THEN [e EXCEPT !.cases[path[1]].events = SetInArr(@, Tail(path), v)]
         ELSE [e EXCEPT !.events = SetInArr(@, Tail(path), v)]

IsArrayRef(path) == Len(path) % 2 = 0

\* eventStack.at(-1)
top(stack) == stack[Len(stack)]

\* x.type for the array or object x a reference leads to (an array has none)
typeOf(evs, path) == IF IsArrayRef(path) THEN Undef ELSE GetInArr(evs, path).type

---------------------------------------------------------------------------
(* parseScriptToArrays: the state of the loop over the lines is the record *)
(* [actors, events, eventStack, raised]; raised is set when a statement    *)
(* throws a TypeError, which ends the function without a result.           *)

Raise(st) == [st EXCEPT !.raised = TRUE]

\* eventStack.at(-1).push(ev): only an array has a push method
PushEvent(st, ev) ==
    IF st.eventStack = <<>> \/ ~IsArrayRef(top(st.eventStack))
    THEN Raise(st)
    ELSE LET ref == top(st.eventStack)
         IN [st EXCEPT !.events = SetInArr(@, ref, Append(GetInArr(@, ref), ev))]

\* the reference to the event that a push onto the top array has just appended
LastPushed(st) ==
    LET ref == top(st.eventStack)
    IN Append(ref, Len(GetInArr(st.events, ref)))

\* mutant of GuardedPop: the pop without its length guard
UnguardedPop(stack) == pop(stack)

\* if (eventStack.length > 1) { eventStack.pop(); }
GuardedPop(stack) == IF Len(stack) > 1 THEN pop(stack) ELSE stack

\* mutant of EndLine: the second pop of a conditional grouping is forgotten
EndLineSinglePop(st) == [st EXCEPT !.eventStack = GuardedPop(@)]

\* command === 'end'
EndLine(st) ==
    LET s1 == GuardedPop(st.eventStack)
    IN IF s1 = <<>> THEN Raise(st)
       ELSE IF includes(conditionalGroupings, typeOf(st.events, top(s1)))
            THEN [st EXCEPT !.eventStack = pop(s1)]
            ELSE [st EXCEPT !.eventStack = s1]

\* mutant of AnnotationText: the newline after the line is forgotten
AnnotationTextNoNewline(st, trimmedLine) ==
    LET ref == top(st.eventStack)
        note == GetInArr(st.events, ref)
    IN [st EXCEPT !.events =
            SetInArr(@, ref, [note EXCEPT !.caption = @ \o trimmedLine])]

\* the top of the stack is an annotation: collecting multi-line text
AnnotationText(st, trimmedLine) ==
    LET ref == top(st.eventStack)
        note == GetInArr(st.events, ref)
    IN [st EXCEPT !.events =
            SetInArr(@, ref, [note EXCEPT !.caption = @ \o trimmedLine \o <<"\n">>])]

\* annotations.includes(command)
AnnotationLine(st, command, text) ==
    LET parts == split(text, <<":">>)
        location == At(parts, 1)
        caption0 == At(parts, 2)
        loc == split(location, <<" ">>)
        align == At(loc, 1)
        src == At(loc, 3)
        multiline == ~Truthy(caption0)
        caption == trim(IF Truthy(caption0) THEN caption0 ELSE <<>>)
        note == [type |-> command, caption |-> caption, align |-> align, src |-> src]
        st1 == PushEvent(st, note)
    IN IF st1.raised THEN st1
       ELSE IF multiline
            THEN [st1 EXCEPT !.eventStack = Append(@, LastPushed(st1))]
            ELSE st1

\* participants.includes(command)
ParticipantLine(st, command, text) ==
    LET parts == split(text, <<" ","a","s"," ">>)
        caption == At(parts, 1)
        alias0 == At(parts, 2)
        alias == IF ~Truthy(alias0) THEN caption ELSE alias0
    IN [st EXCEPT !.actors =
            Append(@, [type |-> command, caption |-> caption, alias |-> alias])]

\* conditionalGroupings.includes(command)
ConditionalLine(st, command, text) ==
    LET alt == [type |-> command,
                cases |-> <<[caption |-> text, events |-> <<>>]>>]
        st1 == PushEvent(st, alt)
    IN IF st1.raised THEN st1
       ELSE LET ref == LastPushed(st1)
            IN [st1 EXCEPT !.eventStack = @ \o <<ref, Append(ref, 1)>>]

\* mutant of ElseLine: the new case is added but the first case stays active
ElseLineStaleCase(st, text) ==
    LET s1 == GuardedPop(st.eventStack)
    IN IF s1 = <<>> THEN Raise(st)
       ELSE IF includes(conditionalGroupings, typeOf(st.events, top(s1)))
            THEN LET ref == top(s1)
                     alt == GetInArr(st.events, ref)
                     c == [caption |-> text, events |-> <<>>]
                 IN [st EXCEPT
                        !.events = SetInArr(@, ref,
                                      [alt EXCEPT !.cases = Append(@, c)]),
                        !.eventStack = Append(s1, Append(ref, 1))]
            ELSE [st EXCEPT !.eventStack = s1]

\* command === 'else'
ElseLine(st, text) ==
    LET s1 == GuardedPop(st.eventStack)
    IN IF s1 = <<>> THEN Raise(st)
       ELSE IF includes(conditionalGroupings, typeOf(st.events, top(s1)))
            THEN LET ref == top(s1)
                     alt == GetInArr(st.events, ref)
                     c == [caption |-> text, events |-> <<>>]
                 IN [st EXCEPT
                        !.events = SetInArr(@, ref,
                                      [alt EXCEPT !.cases = Append(@, c)]),
                        !.eventStack = Append(s1, Append(ref, Len(alt.cases) + 1))]
            ELSE [st EXCEPT !.eventStack = s1]

\* lifetime.includes(command)
LifetimeLine(st, command, text) ==
    PushEvent(st, [type |-> command,
                   cases |-> <<[caption |-> text, events |-> <<>>]>>])

\* synchrony.includes(command)
SynchronyLine(st, command) ==
    LET e == [type |-> command, events |-> <<>>]
        st1 == PushEvent(st, e)
    IN IF st1.raised THEN st1
       ELSE [st1 EXCEPT !.eventStack = Append(@, Append(LastPushed(st1), 1))]

\* command === '}'
\* mutant of BraceLine: the line is ignored
BraceLineIgnored(st) == st

BraceLine(st) == [st EXCEPT !.eventStack = GuardedPop(@)]

\* command === 'autonumber'
AutonumberLine(st, command, text) ==
    PushEvent(st, [type |-> command, start |-> text])

\* splitOnColonEscaped(input): split on the first ':' outside double quotes
RECURSIVE splitOnColonFrom(_, _, _)
splitOnColonFrom(input, i, quoted) ==
    IF i >= Len(input) THEN <<input, <<>>>>
    ELSE IF input[i + 1] = "\"" THEN splitOnColonFrom(input, i + 1, ~quoted)
         ELSE IF input[i + 1] = ":" /\ ~quoted
              THEN <<slice(input, 0, i), sliceFrom(input, i + 1)>>
              ELSE splitOnColonFrom(input, i + 1, quoted)

splitOnColonEscaped(input) == splitOnColonFrom(input, 0, FALSE)

\* actors.find(a => a.caption === name) is truthy
FindActor(acts, name) == \E i \in 1..Len(acts) : acts[i].caption = name

\* mutant of EnsureActor: the actor is appended without looking for it
EnsureActorAlways(acts, name) ==
    Append(acts, [type |-> kwParticipant, caption |-> name])

\* if (!actors.find(a => a.caption === name)) actors.push({ type, caption })
EnsureActor(acts, name) ==
    IF ~FindActor(acts, name)
    THEN Append(acts, [type |-> kwParticipant, caption |-> name])
    ELSE acts

\* if (caption && dest)
SignalAccepted(caption, dest) == Truthy(caption) /\ Truthy(dest)

\* SIGNALS: the final else branch
SignalLine(st, trimmedLine) ==
    LET cs == splitOnColonEscaped(trimmedLine)
        srcDest == cs[1]
        caption0 == cs[2]
        sd == split(srcDest, <<"-", ">">>)
        src0 == At(sd, 1)
        dest0 == At(sd, 2)
    IN IF ~SignalAccepted(caption0, dest0) THEN st
       ELSE
        LET caption == trim(caption0)
            dest1 == removeQuotes(trim(dest0))
            src1 == removeQuotes(trim(src0))
            dotted == endsWith(src1, <<"-">>)
            src == IF dotted THEN slice(src1, 0, Len(src1) - 1) ELSE src1
            open == startsWith(dest1, <<">">>)
            dest2 == IF open THEN sliceFrom(dest1, 1) ELSE dest1
            newActor == startsWith(dest2, <<"*">>)
            dest3 == IF newActor THEN sliceFrom(dest2, 1) ELSE dest2
            isActivated == startsWith(dest3, <<"+">>)
            dest4 == IF isActivated THEN sliceFrom(dest3, 1) ELSE dest3
            isDeactivated == startsWith(dest4, <<"-">>)
            dest == IF isDeactivated THEN sliceFrom(dest4, 1) ELSE dest4
            st1 == PushEvent(st, [type |-> kwSignal, caption |-> caption,
                                  src |-> src, dest |-> dest,
                                  dotted |-> dotted, open |-> open])
            st2 == IF isActivated
                   THEN PushEvent(st1, [type |-> kwActivate, src |-> dest])
                   ELSE st1
            st3 == IF isDeactivated
                   THEN PushEvent(st2, [type |-> kwDeactivate, src |-> dest])
                   ELSE st2
        IN IF st1.raised THEN st1
           ELSE [st3 EXCEPT !.actors = EnsureActor(EnsureActor(@, src), dest)]

\* let command = ...: the text up to the first space, or the whole line
Command(trimmedLine) ==
    LET spaceIndex == indexOf(trimmedLine, " ")
    IN IF spaceIndex = -1 THEN trimmedLine ELSE slice(trimmedLine, 0, spaceIndex)

\* let text = trimmedLine.slice(spaceIndex + 1)
Text(trimmedLine) == sliceFrom(trimmedLine, indexOf(trimmedLine, " ") + 1)

\* the body of the loop over the lines: the first branch that matches
parseLine(st, line) ==
    LET trimmedLine == trim(line)
        command == Command(trimmedLine)
        text == Text(trimmedLine)
    IN IF command = kwEnd THEN EndLine(st)
       ELSE IF st.eventStack = <<>> THEN Raise(st)
       ELSE IF includes(annotations, typeOf(st.events, top(st.eventStack)))
            THEN AnnotationText(st, trimmedLine)
       ELSE IF includes(annotations, command) THEN AnnotationLine(st, command, text)
       ELSE IF includes(participants, command) THEN ParticipantLine(st, command, text)
       ELSE IF includes(conditionalGroupings, command)
            THEN ConditionalLine(st, command, text)
       ELSE IF command = kwElse THEN ElseLine(st, text)
       ELSE IF includes(lifetime, command) THEN LifetimeLine(st, command, text)
       ELSE IF includes(synchrony, command) THEN SynchronyLine(st, command)
       ELSE IF command = kwBrace THEN BraceLine(st)
       ELSE IF command = kwAutonumber THEN AutonumberLine(st, command, text)
       ELSE IF startsWith(command, <<"#">>) THEN st
       ELSE SignalLine(st, trimmedLine)

\* const actors = []; const events = []; const eventStack = [events];
ParserStart ==
    [actors |-> <<>>, events |-> <<>>, eventStack |-> <<<<>>>>, raised |-> FALSE]

\* for (const line of lines) { ... }: a line is not read once a statement threw
RECURSIVE parseLines(_, _)
parseLines(st, lines) ==
    IF lines = <<>> \/ st.raised THEN st
    ELSE parseLines(parseLine(st, Head(lines)), Tail(lines))

\* parseScriptToArrays(script), the script given as its lines
parseScriptToArrays(lines) == parseLines(ParserStart, lines)

---------------------------------------------------------------------------
(* Numbers.  Horizontal positions are halves of widths and shares of a     *)
(* shortfall divided among lanes, so they are exact rationals [n, d] with  *)
(* d > 0, in lowest terms.  Vertical positions are integers.               *)

RECURSIVE gcd(_, _)
gcd(a, b) == IF b = 0 THEN a ELSE gcd(b, a % b)

Q(n, d) ==
    LET g == gcd(IF n < 0 THEN -n ELSE n, d)
    IN [n |-> n \div g, d |-> d \div g]

QInt(i) == [n |-> i, d |-> 1]
QAdd(a, b) == Q(a.n * b.d + b.n * a.d, a.d * b.d)
QSub(a, b) == Q(a.n * b.d - b.n * a.d, a.d * b.d)
QDiv(a, k) == Q(a.n, a.d * k)
QLess(a, b) == a.n * b.d < b.n * a.d

Max(a, b) == IF a < b THEN b ELSE a
Min(a, b) == IF a < b THEN a ELSE b

---------------------------------------------------------------------------
(* The sizing constants of scriptToAsciiArt and its text measurer *)

sizesAscii ==
    [padding |-> 1, signalMargin |-> 2, noteMarginX |-> 1, noteMarginY |-> 1,
     noteTextMarginX |-> 1, noteTextMarginY |-> 1, altMinHeight |-> 1,
     altMarginBottom |-> 1, altMarginItems |-> 1, actorStickmanHeight |-> 1]

\* the constants of scriptToSvgText
sizesSvg ==
    [padding |-> 10, signalMargin |-> 50, noteMarginX |-> 10, noteMarginY |-> 20,
     noteTextMarginX |-> 10, noteTextMarginY |-> 25, altMinHeight |-> 20,
     altMarginBottom |-> 10, altMarginItems |-> 30, actorStickmanHeight |-> 10]

\* content.split(/\n|\\n/): at a newline, or at a backslash followed by n
RECURSIVE splitNewlines(_, _)
splitNewlines(s, cur) ==
    IF s = <<>> THEN <<cur>>
    ELSE IF Head(s) = "\n" THEN <<cur>> \o splitNewlines(Tail(s), <<>>)
    ELSE IF startsWith(s, <<"\\", "n">>)
         THEN <<cur>> \o splitNewlines(sliceFrom(s, 2), <<>>)
         ELSE splitNewlines(Tail(s), Append(cur, Head(s)))

RECURSIVE maxLength(_)
maxLength(parts) ==
    IF Len(parts) = 1 THEN Len(parts[1])
    ELSE Max(Len(Head(parts)), maxLength(Tail(parts)))

\* calculateTextDimensionsAscii(content)
calculateTextDimensionsAscii(content) ==
    LET parts == splitNewlines(content, <<>>)
    IN [height |-> Len(parts), width |-> maxLength(parts)]

---------------------------------------------------------------------------
(* calculatePlacements.  Lane indices are those of the code (from 0) and   *)
(* gaps is the array gaps[0 .. actors.length].                             *)

\* the property key of a value: undefined is the key "undefined"
keyOf(name) ==
    IF name = Undef THEN <<"u","n","d","e","f","i","n","e","d">> ELSE name

\* names every object literal {} inherits from Object.prototype
ObjectPrototypeKeys ==
    {<<"c","o","n","s","t","r","u","c","t","o","r">>,
     <<"t","o","S","t","r","i","n","g">>,
     <<"v","a","l","u","e","O","f">>,
     <<"h","a","s","O","w","n","P","r","o","p","e","r","t","y">>,
     <<"i","s","P","r","o","t","o","t","y","p","e","O","f">>}

\* actorDict[name].  The entry [val, idx] of the last actor with that caption
\* is its index idx; -1 is undefined (no such key); -2 is a value inherited
\* from Object.prototype, which is truthy but holds no actor and no index
actorDict(acts, name) ==
    IF \E i \in 1..Len(acts) : acts[i].caption = keyOf(name)
    THEN (CHOOSE i \in 1..Len(acts) :
            /\ acts[i].caption = keyOf(name)
            /\ \A j \in (i+1)..Len(acts) : acts[j].caption # keyOf(name)) - 1
    ELSE IF keyOf(name) \in ObjectPrototypeKeys THEN -2 ELSE -1

\* a1 in a condition: every value but undefined is truthy
IsEntry(a) == a # -1

\* mutant of nextLane: the triple of a note names the anchor lane twice
nextLaneSame(a) == a

\* a1[1] + 1: NaN (a negative lane here) when a1[1] is undefined
nextLane(a) == IF a < 0 THEN a ELSE a + 1

\* the actor object of a dictionary entry: a1[0]
actorAt(acts, idx) == acts[idx + 1]

\* mutant of actorSizes: a width already on the actor is added to
RECURSIVE actorSizesAccumulating(_, _)
actorSizesAccumulating(acts, sizes) ==
    IF acts = <<>> THEN <<>>
    ELSE LET actor == Head(acts)
             bbox == calculateTextDimensionsAscii(actor.caption)
             extraHeight == IF actor.type = kwActor
                            THEN sizes.actorStickmanHeight ELSE 0
             old == IF "width" \in DOMAIN actor THEN actor.width ELSE 0
         IN <<[height |-> bbox.height + 2 * sizes.padding + extraHeight,
               width |-> old + bbox.width + 2 * sizes.padding] @@ actor>>
            \o actorSizesAccumulating(Tail(acts), sizes)

\* Calculate ACTOR gaps and widths: the first loop of calculatePlacements
RECURSIVE actorSizes(_, _)
actorSizes(acts, sizes) ==
    IF acts = <<>> THEN <<>>
    ELSE LET actor == Head(acts)
             bbox == calculateTextDimensionsAscii(actor.caption)
             extraHeight == IF actor.type = kwActor
                            THEN sizes.actorStickmanHeight ELSE 0
         IN <<[height |-> bbox.height + 2 * sizes.padding + extraHeight,
               width |-> bbox.width + 2 * sizes.padding] @@ actor>>
            \o actorSizes(Tail(acts), sizes)

\* mutant of actorGaps: half the width of each actor, without the padding
actorGapsNoPadding(acts, sizes) ==
    LET half(i) == Q(acts[i].width, 2)
        N == Len(acts)
    IN [i \in 0..N |->
          QAdd(IF i >= 1 THEN half(i) ELSE QInt(0),
               IF i < N THEN half(i + 1) ELSE QInt(0))]

\* gaps[i] += (actor.width / 2) + sizes.padding, for both sides of each actor
actorGaps(acts, sizes) ==
    LET half(i) == QAdd(Q(acts[i].width, 2), QInt(sizes.padding))
        N == Len(acts)
    IN [i \in 0..N |->
          QAdd(IF i >= 1 THEN half(i) ELSE QInt(0),
               IF i < N THEN half(i + 1) ELSE QInt(0))]

\* calculateLaneGapsAndTextSize(actorDict, events, sizes): the events with
\* the text sizes set, and the triples [lane, lane, minimum width]
RECURSIVE calculateLaneGapsAndTextSize(_, _, _), laneGapsOfCases(_, _, _)
calculateLaneGapsAndTextSize(acts, evs, sizes) ==
    IF evs = <<>> THEN [events |-> <<>>, gaps |-> <<>>]
    ELSE
      LET e == Head(evs)
          one ==
            IF e.type = kwSignal
            THEN LET a1 == actorDict(acts, e.src)
                     a2 == actorDict(acts, e.dest)
                     bbox == calculateTextDimensionsAscii(e.caption)
                 IN IF IsEntry(a1) /\ IsEntry(a2)
                    THEN [event |-> [width |-> bbox.width,
                                     height |-> bbox.height] @@ e,
                          gaps |-> <<<<a1, a2, bbox.width + 2 * sizes.padding>>>>]
                    ELSE [event |-> e, gaps |-> <<>>]
            ELSE IF e.type = kwNote
            THEN LET a1 == actorDict(acts, e.src)
                     bbox == calculateTextDimensionsAscii(e.caption)
                     w == bbox.width + 2 * sizes.padding
                 IN IF IsEntry(a1)
                    THEN [event |-> [width |-> w,
                                     height |-> bbox.height + 2 * sizes.padding]
                                    @@ e,
                          gaps |-> <<<<a1, nextLane(a1), w + 2 * sizes.padding>>>>]
                    ELSE [event |-> e, gaps |-> <<>>]
            ELSE IF e.type = kwAlt
            THEN LET r == laneGapsOfCases(acts, e.cases, sizes)
                 IN [event |-> [e EXCEPT !.cases = r.cases], gaps |-> r.gaps]
            ELSE [event |-> e, gaps |-> <<>>]
          rest == calculateLaneGapsAndTextSize(acts, Tail(evs), sizes)
      IN [events |-> <<one.event>> \o rest.events, gaps |-> one.gaps \o rest.gaps]
laneGapsOfCases(acts, cases, sizes) ==
    IF cases = <<>> THEN [cases |-> <<>>, gaps |-> <<>>]
    ELSE LET c == Head(cases)
             r == calculateLaneGapsAndTextSize(acts, c.events, sizes)
             rest == laneGapsOfCases(acts, Tail(cases), sizes)
         IN [cases |-> <<[c EXCEPT !.events = r.events]>> \o rest.cases,
             gaps |-> r.gaps \o rest.gaps]

\* Math.min and Math.max of an undefined lane are NaN, and every comparison
\* with NaN is false
IsNaN(g) == g[1] < 0 \/ g[2] < 0

\* mutant of contiguousPass: the gap is set without comparing it
RECURSIVE contiguousPassOverwrite(_, _)
contiguousPassOverwrite(gaps, triples) ==
    IF triples = <<>> THEN gaps
    ELSE LET g == Head(triples)
             idx1 == Min(g[1], g[2])
             idx2 == Max(g[1], g[2])
             need == QInt(g[3])
             g1 == IF idx1 + 1 = idx2
                   THEN [gaps EXCEPT ![idx1 + 1] = need] ELSE gaps
             g2 == IF idx1 = idx2
                   THEN [g1 EXCEPT ![idx1] = need] ELSE g1
         IN contiguousPassOverwrite(IF IsNaN(g) THEN gaps ELSE g2, Tail(triples))

\* First, CONTIGUOUS and SAME lanes
RECURSIVE contiguousPass(_, _)
contiguousPass(gaps, triples) ==
    IF triples = <<>> THEN gaps
    ELSE LET g == Head(triples)
             idx1 == Min(g[1], g[2])
             idx2 == Max(g[1], g[2])
             need == QInt(g[3])
             g1 == IF idx1 + 1 = idx2 /\ QLess(gaps[idx1 + 1], need)
                   THEN [gaps EXCEPT ![idx1 + 1] = need] ELSE gaps
             g2 == IF idx1 = idx2 /\ QLess(g1[idx1], need)
                   THEN [g1 EXCEPT ![idx1] = need] ELSE g1
         IN contiguousPass(IF IsNaN(g) THEN gaps ELSE g2, Tail(triples))

\* totalGap: the sum of gaps[j] for idx1 <= j < idx2
RECURSIVE totalGap(_, _, _)
totalGap(gaps, j, idx2) ==
    IF j >= idx2 THEN QInt(0) ELSE QAdd(gaps[j], totalGap(gaps, j + 1, idx2))

\* Second, evenly distribute multi-lane gaps
RECURSIVE distributePass(_, _)
distributePass(gaps, triples) ==
    IF triples = <<>> THEN gaps
    ELSE LET g == Head(triples)
             idx1 == Min(g[1], g[2])
             idx2 == Max(g[1], g[2])
             need == QInt(g[3])
             extraGap == QDiv(QSub(need, totalGap(gaps, idx1, idx2)), idx2 - idx1)
             g1 == IF /\ idx1 + 1 < idx2
                      /\ QLess(gaps[idx1 + 1], need)
                      /\ QLess(QInt(0), extraGap)
                   THEN [j \in DOMAIN gaps |->
                           IF idx1 + 1 <= j /\ j <= idx2
                           THEN QAdd(gaps[j], extraGap) ELSE gaps[j]]
                   ELSE gaps
         IN distributePass(IF IsNaN(g) THEN gaps ELSE g1, Tail(triples))

\* mutant of offsetX: the offset starts at 0, not at gaps[0]
RECURSIVE offsetXFromZero(_, _)
offsetXFromZero(gaps, i) ==
    IF i = 0 THEN QInt(0) ELSE QAdd(offsetXFromZero(gaps, i - 1), gaps[i])

\* actorOffsetX after the first i actors: gaps[0] + ... + gaps[i]
RECURSIVE offsetX(_, _)
offsetX(gaps, i) == IF i = 0 THEN gaps[0] ELSE QAdd(offsetX(gaps, i - 1), gaps[i])

\* Calculate ACTOR locations
actorLocations(acts, gaps, sizes) ==
    [i \in 1..Len(acts) |->
        LET lineX == offsetX(gaps, i - 1)
        IN [lineX |-> lineX,
            x |-> QSub(lineX, Q(acts[i].width, 2)),
            y |-> sizes.padding] @@ acts[i]]

\* mutant of actorMaxHeight: the height of the actor boxes is left out
actorMaxHeightZero(acts) == 0

RECURSIVE actorMaxHeight(_)
actorMaxHeight(acts) ==
    IF acts = <<>> THEN 0 ELSE Max(Head(acts).height, actorMaxHeight(Tail(acts)))

\* calculateEventPlacements(actorDict, events, startY, totalWidth, sizes):
\* the events with their positions set, and the y after the last of them.
\* raised is set when a1[0].lineX is read of an a1 that holds no actor (a1[0]
\* is undefined, a TypeError); the loop ends there.
RECURSIVE calculateEventPlacements(_, _, _, _, _), placeCases(_, _, _, _, _)
calculateEventPlacements(acts, evs, startY, totalWidth, sizes) ==
    IF evs = <<>> THEN [events |-> <<>>, y |-> startY, raised |-> FALSE]
    ELSE
      LET e == Head(evs)
          y == startY
          one ==
            IF e.type = kwSignal
            THEN LET a1 == actorDict(acts, e.src)
                     a2 == actorDict(acts, e.dest)
                 IN IF IsEntry(a1) /\ IsEntry(a2)
                    THEN IF a1 < 0 \/ a2 < 0
                         THEN [event |-> e, y |-> y, raised |-> TRUE]
                         ELSE [event |-> [startX |-> actorAt(acts, a1).lineX,
                                          endX |-> actorAt(acts, a2).lineX,
                                          startY |-> y, endY |-> y] @@ e,
                               y |-> y + sizes.signalMargin + e.height,
                               raised |-> FALSE]
                    ELSE [event |-> e, y |-> y, raised |-> FALSE]
            ELSE IF e.type = kwNote
            THEN LET a1 == actorDict(acts, e.src)
                 IN IF IsEntry(a1)
                    THEN IF a1 < 0
                         THEN [event |-> e, y |-> y, raised |-> TRUE]
                         ELSE [event |-> [x |-> QAdd(actorAt(acts, a1).lineX,
                                                     QInt(sizes.noteMarginX)),
                                          y |-> y,
                                          textMarginX |-> sizes.noteTextMarginX,
                                          textMarginY |-> sizes.noteTextMarginY]
                                         @@ e,
                               y |-> y + sizes.noteMarginY + e.height,
                               raised |-> FALSE]
                    ELSE [event |-> e, y |-> y, raised |-> FALSE]
            ELSE IF e.type = kwAlt
            THEN LET r == placeCases(acts, e.cases, y + sizes.altMarginItems,
                                     totalWidth, sizes)
                 IN [event |-> [x |-> 0, y |-> y,
                                height |-> sizes.altMinHeight + r.heights,
                                width |-> totalWidth]
                               @@ [e EXCEPT !.cases = r.cases],
                     y |-> r.y + sizes.altMarginBottom,
                     raised |-> r.raised]
            ELSE [event |-> e, y |-> y, raised |-> FALSE]
          rest == calculateEventPlacements(acts, Tail(evs), one.y, totalWidth, sizes)
      IN IF one.raised
         THEN [events |-> <<one.event>> \o Tail(evs), y |-> one.y, raised |-> TRUE]
         ELSE [events |-> <<one.event>> \o rest.events, y |-> rest.y,
               raised |-> rest.raised]
\* mutant of placeCases: every case is laid out from the same start
RECURSIVE placeCasesSameStart(_, _, _, _, _)
placeCasesSameStart(acts, cases, y, totalWidth, sizes) ==
    IF cases = <<>> THEN [cases |-> <<>>, y |-> y, heights |-> 0, raised |-> FALSE]
    ELSE LET c == Head(cases)
             r == calculateEventPlacements(acts, c.events, y, totalWidth, sizes)
             caseHeight == r.y - y
             rest == placeCasesSameStart(acts, Tail(cases), y, totalWidth, sizes)
         IN IF r.raised
            THEN [cases |-> cases, y |-> r.y, heights |-> 0, raised |-> TRUE]
            ELSE [cases |-> <<[height |-> caseHeight]
                             @@ [c EXCEPT !.events = r.events]>> \o rest.cases,
                  y |-> Max(r.y, rest.y),
                  heights |-> caseHeight + rest.heights,
                  raised |-> rest.raised]

placeCases(acts, cases, y, totalWidth, sizes) ==
    IF cases = <<>> THEN [cases |-> <<>>, y |-> y, heights |-> 0, raised |-> FALSE]
    ELSE LET c == Head(cases)
             r == calculateEventPlacements(acts, c.events, y, totalWidth, sizes)
             caseHeight == r.y - y
             rest == placeCases(acts, Tail(cases), r.y, totalWidth, sizes)
         IN IF r.raised
            THEN [cases |-> cases, y |-> r.y, heights |-> 0, raised |-> TRUE]
            ELSE [cases |-> <<[height |-> caseHeight]
                             @@ [c EXCEPT !.events = r.events]>> \o rest.cases,
                  y |-> rest.y,
                  heights |-> caseHeight + rest.heights,
                  raised |-> rest.raised]

\* calculatePlacements(actors, events, sizes): the actors and events with
\* their geometry, and the returned { width, height }; raised when the call
\* ends in a TypeError and returns nothing
calculatePlacements(acts, evs, sizes) ==
    LET sized == actorSizes(acts, sizes)
        gaps0 == actorGaps(sized, sizes)
        lanes == calculateLaneGapsAndTextSize(sized, evs, sizes)
        gaps == distributePass(contiguousPass(gaps0, lanes.gaps), lanes.gaps)
        located == actorLocations(sized, gaps, sizes)
        width == offsetX(gaps, Len(acts))
        placed == calculateEventPlacements(located, lanes.events,
                      actorMaxHeight(sized) + sizes.padding * 2 + 1, width, sizes)
    IN [actors |-> [i \in 1..Len(located) |-> [lineY |-> placed.y] @@ located[i]],
        events |-> placed.events,
        width |-> width,
        height |-> placed.y,
        raised |-> placed.raised]

---------------------------------------------------------------------------
(* renderAsciiElements.  The grid asciiArt has height + 2 rows; a write     *)
(* asciiArt[row][col] = c raises a TypeError when asciiArt[row] is          *)
(* undefined, that is when row is NaN or not an index of the grid (a write  *)
(* to a column outside the row only adds a property).  The model keeps the  *)
(* rows each drawing function writes to and the list of what was drawn; a   *)
(* row computed from a missing field (Math.floor(undefined) is NaN) is -1.  *)

\* the rows of the grid in which drawAsciiText writes a character
TextRows(text, startY) ==
    LET parts == splitNewlines(text, <<>>)
    IN {startY + i - 1 : i \in {j \in 1..Len(parts) : parts[j] # <<>>}}

\* Math.floor of a rational
Floor(q) == q.n \div q.d

\* drawAsciiParticipant(asciiArt, actor)
drawAsciiParticipant(actor) ==
    LET y == actor.y
        height == actor.height
        outline == IF actor.type = kwActor
                   THEN {y, y + 1, y + 2} \cup TextRows(actor.caption, y + 3)
                   ELSE {y, y + height - 1} \cup ((y + 1)..(y + height - 2))
                        \cup TextRows(actor.caption, y + 1)
    IN [rows |-> outline \cup ((y + actor.height)..(y + actor.lineY)),
        op |-> [kind |-> "participant", caption |-> actor.caption]]

\* if (signal.startX == signal.endX): two missing fields are equal as well
IsSelfArrow(signal) ==
    IF "startX" \in DOMAIN signal /\ "endX" \in DOMAIN signal
    THEN signal.startX = signal.endX
    ELSE "startX" \notin DOMAIN signal /\ "endX" \notin DOMAIN signal

\* drawAsciiArrow(asciiArt, signal)
drawAsciiArrow(signal) ==
    LET y == IF "startY" \in DOMAIN signal THEN signal.startY ELSE -1
        line == IF IsSelfArrow(signal) THEN {y - 1, y} ELSE {y}
    IN [rows |-> IF "startY" \in DOMAIN signal
                 THEN line \cup TextRows(signal.caption, y - 1) ELSE {-1},
        op |-> [kind |-> IF IsSelfArrow(signal) THEN "selfArrow" ELSE "arrow",
                caption |-> signal.caption]]

\* drawAsciiNoteBox(asciiArt, note)
drawAsciiNoteBox(note) ==
    [rows |-> IF "y" \in DOMAIN note /\ "height" \in DOMAIN note
              THEN {note.y, note.y + note.height - 1}
                   \cup TextRows(note.caption, note.y + 1)
              ELSE {-1},
     op |-> [kind |-> "noteBox", caption |-> note.caption]]

\* the rows of asciiArt: Array.from({ length: height + 2 })
IsRow(r, height) == r \in 0..(height + 1)

\* renderAsciiNestedEvents(asciiArt, events) and drawAsciiAltBox(asciiArt,
\* alt): what was drawn, and raised when a write found no row
RECURSIVE renderAsciiNestedEvents(_, _), drawAsciiAltBox(_, _), drawAsciiCases(_, _, _, _, _)
renderAsciiNestedEvents(evs, height) ==
    IF evs = <<>> THEN [ops |-> <<>>, raised |-> FALSE]
    ELSE
      LET ev == Head(evs)
          one ==
            IF ev.type = kwSignal
            THEN LET d == drawAsciiArrow(ev)
                 IN [ops |-> <<d.op>>,
                     raised |-> \E r \in d.rows : ~IsRow(r, height)]
            ELSE IF ev.type = kwNote
            THEN LET d == drawAsciiNoteBox(ev)
                 IN [ops |-> <<d.op>>,
                     raised |-> \E r \in d.rows : ~IsRow(r, height)]
            ELSE IF ev.type = kwAlt THEN drawAsciiAltBox(ev, height)
            ELSE [ops |-> <<>>, raised |-> FALSE]
          rest == renderAsciiNestedEvents(Tail(evs), height)
      IN IF one.raised THEN one
         ELSE [ops |-> one.ops \o rest.ops, raised |-> rest.raised]
drawAsciiAltBox(alt, height) ==
    LET y == alt.y
        box == {y, y + alt.height - 1, y + 1, y + 2}
                 \cup ((y + 1)..(y + alt.height - 2))
        cases == drawAsciiCases(alt.cases, 1, y + 1, Floor(alt.width), height)
        op == [kind |-> "altBox", caption |-> alt.type]
    IN IF \E r \in box : ~IsRow(r, height)
       THEN [ops |-> <<op>>, raised |-> TRUE]
       ELSE [ops |-> <<op>> \o cases.ops, raised |-> cases.raised]
drawAsciiCases(cases, i, currentY, width, height) ==
    IF i > Len(cases) THEN [ops |-> <<>>, raised |-> FALSE]
    ELSE LET separator == IF i > 1 /\ width > 2 THEN {currentY} ELSE {}
             rows == separator \cup {currentY + 1}
             nested == renderAsciiNestedEvents(cases[i].events, height)
             rest == drawAsciiCases(cases, i + 1, currentY + cases[i].height,
                                    width, height)
         IN IF \E r \in rows : ~IsRow(r, height)
            THEN [ops |-> <<>>, raised |-> TRUE]
            ELSE IF nested.raised THEN nested
            ELSE [ops |-> nested.ops \o rest.ops, raised |-> rest.raised]

\* the loop over the actors of renderAsciiElements
RECURSIVE renderAsciiActors(_, _)
renderAsciiActors(acts, height) ==
    IF acts = <<>> THEN [ops |-> <<>>, raised |-> FALSE]
    ELSE LET d == drawAsciiParticipant(Head(acts))
             rest == renderAsciiActors(Tail(acts), height)
         IN IF \E r \in d.rows : ~IsRow(r, height)
            THEN [ops |-> <<d.op>>, raised |-> TRUE]
            ELSE [ops |-> <<d.op>> \o rest.ops, raised |-> rest.raised]

\* renderAsciiElements(actors, events, width, height)
renderAsciiElements(acts, evs, width, height) ==
    LET a == renderAsciiActors(acts, height)
        n == renderAsciiNestedEvents(evs, height)
    IN IF a.raised THEN a
       ELSE [ops |-> a.ops \o n.ops, raised |-> n.raised]

---------------------------------------------------------------------------
(* The script lines the model feeds to the parser *)

lnAlt == <<"a","l","t"," ","x">>
lnElse == <<"e","l","s","e"," ","y">>
lnEnd == <<"e","n","d">>
lnBrace == <<"}">>
lnSigAB == <<"A","-",">","B",":"," ","h","i">>
lnSelf == <<"B","-",">","B",":"," ","s">>
lnParallel == <<"p","a","r","a","l","l","e","l">>
lnNoteBlock == <<"n","o","t","e"," ","r","i","g","h","t"," ","o","f"," ","A">>
lnNoteA == <<"n","o","t","e"," ","r","i","g","h","t"," ","o","f"," ","A",":"," ","n">>
lnNoteGhost ==
    <<"n","o","t","e"," ","r","i","g","h","t"," ","o","f"," ","G","h","o","s","t",":"," ","x">>
lnNoteBlockGhost ==
    <<"n","o","t","e"," ","r","i","g","h","t"," ","o","f"," ","G","h","o","s","t">>
lnNoteProto ==
    <<"n","o","t","e"," ","r","i","g","h","t"," ","o","f"," ",
      "c","o","n","s","t","r","u","c","t","o","r",":"," ","x">>
lnDeclareAlias ==
    <<"p","a","r","t","i","c","i","p","a","n","t"," ","A","l","i","c","e"," ","a","s"," ","A">>
lnDeclareA == <<"p","a","r","t","i","c","i","p","a","n","t"," ","A">>
lnComment == <<"#"," ","c">>
lnBlank == <<>>
lnIndented == <<" "," ","l","1"," ">>
lnNoSrc == <<"-",">","B",":"," ","h","i">>
lnNoDest == <<"A","-",">",":"," ","h","i">>
lnBlankDest == <<"A","-",">"," ",":"," ","h","i">>
lnNoCaption == <<"A","-",">","B",":">>
lnNoColon == <<"A","-",">","B">>
lnNoArrow == <<"A",":"," ","h","i">>

lnDotted == <<"A","-","-",">","B",":"," ","d">>
lnOpen == <<"A","-",">",">","B",":"," ","o">>
lnDottedOpen == <<"A","-","-",">",">","B",":"," ","b">>
lnSpacedArrow == <<"A","-"," ","-",">"," ",">","B",":"," ","w">>
lnDeactivate == <<"A","-",">","-","B",":"," ","x">>
lnSigBCLong == <<"B","-",">","C",":"," ","a","b","c","d","e","f","g","h">>
lnSigACWide == <<"A","-",">","C",":"," ","a","b","c","d","e","f","g","h","i","j","k","l","m","n","o","p","q","r","s","t","u","v">>
lnSigBA == <<"B","-",">","A",":"," ","a","b","c","d","e","f">>
lnNoteCLong == <<"n","o","t","e"," ","r","i","g","h","t"," ","o","f"," ","C",":"," ","n","n","n","n","n","n">>
lnOpt == <<"o","p","t"," ","x">>
lnNoteColons == <<"n","o","t","e"," ","r","i","g","h","t"," ","o","f"," ","A",":"," ","a",":","b">>
lnNoteEmpty == <<"n","o","t","e"," ","r","i","g","h","t"," ","o","f"," ","A",":">>
lnBareAlt == <<"a","l","t">>
lnBareLoop == <<"l","o","o","p">>
lnBareOpt == <<"o","p","t">>
lnBareElse == <<"e","l","s","e">>
lnBareAutonumber == <<"a","u","t","o","n","u","m","b","e","r">>
lnActivate == <<"A","-",">","+","B",":"," ","x">>
lnActDeact == <<"A","-",">","+","-","B",":"," ","x">>
lnAllPrefixes == <<"A","-",">",">","*","+","-","B",":"," ","x">>
lnWrongOrder == <<"A","-",">","-","+","B",":"," ","x">>
lnSigLongB == <<"A","b","c","d","e","f","g","h","i","j","-",">","B",":"," ","h">>
lnSigLongC == <<"A","b","c","d","e","f","g","h","i","j","-",">","C",":"," ","a","b","c","d","e","f","g","h","i","j","k","l","m","n","o","p","q","r","s","t","u","v">>
\* the longest script of each profile
MaxNesting == 4
MaxCases == 6
MaxBlock == 3
MaxSignals == 3
MaxNotes == 3
MaxArrows == 3
MaxLayout == 3
MaxCaptions == 3
MaxBare == 3
MaxPrefixes == 3
MaxSpread == 3

Profiles == {"nesting", "cases", "block", "signals", "notes", "arrows", "layout", "captions", "bare", "prefixes", "spread"}

Lines(p) ==
    CASE p = "nesting" ->
            {lnAlt, lnElse, lnEnd, lnBrace, lnSigAB, lnParallel, lnNoteBlock}
      [] p = "cases" -> {lnAlt, lnElse, lnEnd, lnSigAB}
      [] p = "block" ->
            {lnNoteBlock, lnBlank, lnComment, lnIndented, lnAlt, lnElse,
             lnDeclareA, lnBrace, lnSigAB, lnEnd}
      [] p = "signals" ->
            {lnDeclareAlias, lnSigAB, lnSelf, lnNoSrc, lnNoDest, lnBlankDest,
             lnNoCaption, lnNoColon, lnNoArrow}
      [] p = "notes" ->
            {lnDeclareA, lnSigAB, lnNoteA, lnNoteGhost, lnNoteBlockGhost,
             lnNoteProto, lnAlt, lnEnd}
      [] p = "arrows" ->
            {lnSigAB, lnDotted, lnOpen, lnDottedOpen, lnSpacedArrow, lnDeactivate, lnAlt}
      [] p = "layout" ->
            {lnSigAB, lnSigBCLong, lnSigACWide, lnSigBA, lnNoteCLong, lnNoteA, lnSelf,
             lnOpt}
      [] p = "captions" ->
            {lnNoteA, lnNoteColons, lnNoteEmpty, lnNoteBlock, lnSigAB, lnEnd}
      [] p = "bare" ->
            {lnBareAlt, lnBareLoop, lnBareOpt, lnBareElse, lnBareAutonumber,
             lnAlt, lnElse, lnEnd}
      [] p = "prefixes" ->
            {lnSigAB, lnActivate, lnDeactivate, lnActDeact, lnAllPrefixes,
             lnWrongOrder, lnAlt}
      [] p = "spread" ->
            {lnSigLongB, lnSigLongC, lnSigAB, lnSigBCLong, lnSigACWide, lnAlt}

MaxLines(p) ==
    CASE p = "nesting" -> MaxNesting
      [] p = "cases" -> MaxCases
      [] p = "block" -> MaxBlock
      [] p = "signals" -> MaxSignals
      [] p = "notes" -> MaxNotes
      [] p = "arrows" -> MaxArrows
      [] p = "layout" -> MaxLayout
      [] p = "captions" -> MaxCaptions
      [] p = "bare" -> MaxBare
      [] p = "prefixes" -> MaxPrefixes
      [] p = "spread" -> MaxSpread

---------------------------------------------------------------------------
(* The state machine of scriptToAsciiArt: parseScriptToArrays reads the     *)
(* script line by line (script holds the lines read so far) and returns    *)
(* {actors, events}; calculatePlacements then sets their geometry in place *)
(* and returns the canvas {width, height}; renderAsciiElements then draws  *)
(* them (drawn is the list of what it drew).                               *)

ParserState ==
    [actors |-> actors, events |-> events, eventStack |-> eventStack,
     raised |-> raised]

Init ==
    /\ profile \in Profiles
    /\ script = <<>>
    /\ actors = ParserStart.actors
    /\ events = ParserStart.events
    /\ eventStack = ParserStart.eventStack
    /\ raised = ParserStart.raised
    /\ canvas = Undef
    /\ drawn = Undef
    /\ pc = "parse"
    /\ editorValue = Undef
    /\ diagram = Undef
    /\ seqDiagram = Undef
    /\ document = Undef
    /\ theme = Undef
    /\ toWebview = <<>>
    /\ toHost = <<>>

\* one iteration of for (const line of lines)
ParseLine ==
    /\ pc = "parse"
    /\ ~raised
    /\ Len(script) < MaxLines(profile)
    /\ \E line \in Lines(profile) :
          \E st \in {parseLine(ParserState, line)} :
             /\ script' = Append(script, line)
             /\ actors' = st.actors
             /\ events' = st.events
             /\ eventStack' = st.eventStack
             /\ raised' = st.raised
    /\ UNCHANGED <<canvas, drawn, pc, profile>>
    /\ UNCHANGED webview

\* return { actors, events }: split('\n') gives at least one line
ParseReturn ==
    /\ pc = "parse"
    /\ ~raised
    /\ Len(script) >= 1
    /\ pc' = "parsed"
    /\ UNCHANGED <<script, actors, events, eventStack, raised, canvas, drawn, profile>>
    /\ UNCHANGED webview

\* const { width, height } = this.calculatePlacements(actors, events, sizes).
\* When the call raises, scriptToAsciiArt ends there: nothing is returned and
\* the half-placed actors and events are dropped with it.
CalculatePlacements ==
    /\ pc = "parsed"
    /\ ~raised
    /\ \E r \in {calculatePlacements(actors, events, sizesAscii)} :
          IF r.raised
          THEN /\ raised' = TRUE
               /\ UNCHANGED <<actors, events, canvas, pc>>
          ELSE /\ actors' = r.actors
               /\ events' = r.events
               /\ canvas' = [width |-> r.width, height |-> r.height]
               /\ pc' = "placed"
               /\ UNCHANGED raised
    /\ UNCHANGED <<script, eventStack, drawn, profile>>
    /\ UNCHANGED webview

\* calculatePlacements called once more on the actors and events it has
\* already written into, with the same sizes
CalculatePlacementsAgain ==
    /\ pc = "placed"
    /\ ~raised
    /\ \E r \in {calculatePlacements(actors, events, sizesAscii)} :
          IF r.raised
          THEN /\ raised' = TRUE
               /\ UNCHANGED <<actors, events, canvas>>
          ELSE /\ actors' = r.actors
               /\ events' = r.events
               /\ canvas' = [width |-> r.width, height |-> r.height]
               /\ UNCHANGED raised
    /\ pc' = "placedAgain"
    /\ UNCHANGED <<script, eventStack, drawn, profile>>
    /\ UNCHANGED webview

\* return this.renderAsciiElements(actors, events, width, height).  When a
\* write raises, scriptToAsciiArt ends there and returns nothing.
RenderAsciiElements ==
    /\ pc = "placed"
    /\ ~raised
    /\ \E r \in {renderAsciiElements(actors, events, canvas.width, canvas.height)} :
          IF r.raised
          THEN raised' = TRUE /\ UNCHANGED <<drawn, pc>>
          ELSE drawn' = r.ops /\ pc' = "rendered" /\ UNCHANGED raised
    /\ UNCHANGED <<script, actors, events, eventStack, canvas, profile>>
    /\ UNCHANGED webview

Next ==
    \/ ParseLine
    \/ ParseReturn
    \/ CalculatePlacements
    \/ CalculatePlacementsAgain
    \/ RenderAsciiElements

Spec == Init /\ [][Next]_vars

---------------------------------------------------------------------------
(* The editor webview (webview/main.js) and its host (extension.ts).  The   *)
(* textarea holds editorValue; diagram is what diagramTarget shows: the     *)
(* image scriptToSvgImage made, kept as the script and the colours it was   *)
(* made from.  document is the host's text document; toWebview and toHost   *)
(* are the messages posted in each direction and not yet handled.           *)

MaxToWebview == 2
MaxToHost == 1

\* the texts of the document and of the textarea
Texts == {lnBlank, lnSigAB, lnSelf}

\* the colour themes of the workbench
Themes == {"dark", "light"}

\* diagram.innerHTML = ""; diagram.appendChild(seqDiagram.scriptToSvgImage(text))
updateDiagram(text, colors) == [script |-> text, colors |-> colors]

parserIdle ==
    /\ profile = "nesting"
    /\ script = <<>>
    /\ actors = <<>>
    /\ events = <<>>
    /\ eventStack = <<<<>>>>
    /\ raised = FALSE
    /\ canvas = Undef
    /\ drawn = Undef
    /\ pc = "webview"

parserVars == <<script, actors, events, eventStack, raised, canvas, drawn, pc, profile>>

\* resolveCustomTextEditor sets the html with the document's text in the
\* textarea; main.js then runs to its end: seqDiagram = getSequenceDiagrams()
\* and updateDiagram()
WebviewInit ==
    /\ parserIdle
    /\ document \in Texts
    /\ theme \in Themes
    /\ editorValue = document
    /\ seqDiagram = theme
    /\ diagram = updateDiagram(document, theme)
    /\ toWebview = <<>>
    /\ toHost = <<>>

\* the user changes the textarea: the 'input' listener posts an edit message
\* and editor.oninput runs updateDiagram
EditorInput ==
    /\ Len(toHost) < MaxToHost
    /\ \E text \in Texts \ {editorValue} :
          /\ editorValue' = text
          /\ toHost' = Append(toHost, [command |-> "edit", text |-> text])
          /\ diagram' = updateDiagram(text, seqDiagram)
    /\ UNCHANGED <<seqDiagram, document, theme, toWebview>>
    /\ UNCHANGED parserVars

\* onDidReceiveMessage, case 'edit': updateTextDocument replaces the text of
\* the document; onDidChangeTextDocument then posts an update message
HostEdit ==
    /\ toHost # <<>>
    /\ Len(toWebview) < MaxToWebview
    /\ document' = Head(toHost).text
    /\ toHost' = Tail(toHost)
    /\ toWebview' = Append(toWebview, [type |-> "update", text |-> document'])
    /\ UNCHANGED <<editorValue, diagram, seqDiagram, theme>>
    /\ UNCHANGED parserVars

\* the document is changed outside the webview (another editor of the same
\* file, undo, a revert): onDidChangeTextDocument posts an update message
DocumentChanged ==
    /\ Len(toWebview) < MaxToWebview
    /\ \E text \in Texts \ {document} :
          /\ document' = text
          /\ toWebview' = Append(toWebview, [type |-> "update", text |-> text])
    /\ UNCHANGED <<editorValue, diagram, seqDiagram, theme, toHost>>
    /\ UNCHANGED parserVars

\* the colour theme is changed: themeChanged() posts a themeChanged message
ThemeChanged ==
    /\ Len(toWebview) < MaxToWebview
    /\ \E t \in Themes \ {theme} : theme' = t
    /\ toWebview' = Append(toWebview, [type |-> "themeChanged", text |-> <<>>])
    /\ UNCHANGED <<editorValue, diagram, seqDiagram, document, toHost>>
    /\ UNCHANGED parserVars

\* the message listener, message.type == 'update'
MessageUpdate ==
    /\ toWebview # <<>>
    /\ Head(toWebview).type = "update"
    /\ editorValue' = IF editorValue # Head(toWebview).text
                      THEN Head(toWebview).text ELSE editorValue
    /\ toWebview' = Tail(toWebview)
    /\ UNCHANGED <<diagram, seqDiagram, document, theme, toHost>>
    /\ UNCHANGED parserVars

\* the message listener, message.type == 'themeChanged'
MessageThemeChanged ==
    /\ toWebview # <<>>
    /\ Head(toWebview).type = "themeChanged"
    /\ seqDiagram' = theme
    /\ diagram' = updateDiagram(editorValue, theme)
    /\ toWebview' = Tail(toWebview)
    /\ UNCHANGED <<editorValue, document, theme, toHost>>
    /\ UNCHANGED parserVars

\* the message listener, message.command == 'load' (the host of this
\* repository posts no such message; its content is any text)
MessageLoad ==
    /\ pc = "webview"
    /\ \E content \in Texts : editorValue' = content
    /\ UNCHANGED <<diagram, seqDiagram, document, theme, toWebview, toHost>>
    /\ UNCHANGED parserVars

WebviewNext ==
    \/ EditorInput
    \/ HostEdit
    \/ DocumentChanged
    \/ ThemeChanged
    \/ MessageUpdate
    \/ MessageThemeChanged
    \/ MessageLoad

WebviewSpec == WebviewInit /\ [][WebviewNext]_vars

---------------------------------------------------------------------------
(* Vocabulary of the properties *)

\* every event of a tree, at any depth (the cases of a grouping, the events
\* of a synchrony grouping)
RECURSIVE AllEvents(_), AllCaseEvents(_)
AllEvents(arr) ==
    IF arr = <<>> THEN <<>>
    ELSE LET e == Head(arr)
             inner == IF "cases" \in DOMAIN e THEN AllCaseEvents(e.cases)
                      ELSE IF "events" \in DOMAIN e THEN AllEvents(e.events)
                      ELSE <<>>
         IN <<e>> \o inner \o AllEvents(Tail(arr))
AllCaseEvents(cases) ==
    IF cases = <<>> THEN <<>>
    ELSE AllEvents(Head(cases).events) \o AllCaseEvents(Tail(cases))

CommandOf(line) == Command(trim(line))
HasColon(line) == \E i \in 1..Len(line) : line[i] = ":"

\* the lines of the model that are complete signals, and the event of each
IsSignal(line) == line \in {lnSigAB, lnSelf}
SignalEventOf(line) ==
    IF line = lnSigAB
    THEN [type |-> kwSignal, caption |-> <<"h","i">>, src |-> <<"A">>,
          dest |-> <<"B">>, dotted |-> FALSE, open |-> FALSE]
    ELSE [type |-> kwSignal, caption |-> <<"s">>, src |-> <<"B">>,
          dest |-> <<"B">>, dotted |-> FALSE, open |-> FALSE]

\* the parser's result is as parseScriptToArrays leaves it: layout, which
\* writes the geometry into the actors and events, has not run
BeforeLayout == pc \in {"parse", "parsed"}

\* parseScriptToArrays raised (ParseReturn is not taken after a raise)
ParseRaised == pc = "parse" /\ raised

\* the label written after the keyword of the grouping lines of the model
LabelOf(line) == IF line = lnAlt THEN <<"x">> ELSE <<"y">>

---------------------------------------------------------------------------
\* C1: parseScriptToArrays never raises, whatever the lines of the script
\* (unbalanced end, else and } lines included).
C1_NeverRaises == ~ParseRaised

---------------------------------------------------------------------------
\* C2: after any prefix of any script the nesting stack has at least one
\* entry and its bottom entry is the root event sequence.
C2_RootNeverRemoved == Len(eventStack) >= 1 /\ eventStack[1] = <<>>

\* end, else and } lines were processed with only the root on the stack
C2_Witness ==
    /\ Len(script) >= 3
    /\ script[1] = lnEnd /\ script[2] = lnElse /\ script[3] = lnBrace
    /\ eventStack = <<<<>>>>

---------------------------------------------------------------------------
\* C3: in a well-formed script (every alt/opt/loop/par/seq, parallel/serial
\* and block annotation closed by its own end, else only directly inside a
\* conditional grouping, single-line annotations carrying a caption) the
\* stack holds the root plus the frames of the groupings still open: two for
\* a conditional grouping, one for a synchrony grouping or block annotation;
\* so once every grouping is closed it holds exactly the root sequence.

Ill == <<"ill-formed">>

\* the groupings left open after the line, by the grammar of the script
Grammar(open, line) ==
    LET cmd == CommandOf(line)
    IN IF open = Ill THEN Ill
       ELSE IF open # <<>> /\ top(open) = "note"
            THEN (IF cmd = kwEnd THEN pop(open) ELSE open)
       ELSE IF cmd = kwEnd THEN (IF open = <<>> THEN Ill ELSE pop(open))
       ELSE IF includes(conditionalGroupings, cmd) THEN Append(open, "cond")
       ELSE IF includes(synchrony, cmd) THEN Append(open, "sync")
       ELSE IF includes(annotations, cmd)
            THEN (IF ~HasColon(line) THEN Append(open, "note")
                  ELSE IF trim(sliceFrom(line, indexOf(line, ":") + 1)) # <<>>
                       THEN open ELSE Ill)
       ELSE IF cmd = kwElse
            THEN (IF open # <<>> /\ top(open) = "cond" THEN open ELSE Ill)
       ELSE IF cmd = kwBrace THEN Ill
       ELSE open

RECURSIVE OpenGroupings(_, _)
OpenGroupings(open, lines) ==
    IF lines = <<>> THEN open
    ELSE OpenGroupings(Grammar(open, Head(lines)), Tail(lines))

RECURSIVE Frames(_)
Frames(open) ==
    IF open = <<>> THEN 0
    ELSE (IF Head(open) = "cond" THEN 2 ELSE 1) + Frames(Tail(open))

---------------------------------------------------------------------------
\* C4: an end line processed while the stack holds only the root sequence
\* changes neither the stack, nor the actors, nor the event tree, and does
\* not raise.
C4_EndAtRootIsNoOp ==
    [][(eventStack = <<<<>>>> /\ script' = Append(script, lnEnd))
         => (UNCHANGED <<actors, events, eventStack>> /\ ~raised')]_vars

\* an end line was processed after a signal, at the root
C4_Witness ==
    /\ script = <<lnSigAB, lnEnd>>
    /\ eventStack = <<<<>>>>
    /\ Len(events) = 1

---------------------------------------------------------------------------
\* C5: a conditional-grouping line, n else lines and the closing end give one
\* grouping event with n+1 cases in script order; every signal between two
\* of these lines is in the case of the nearest preceding alt/else line, and
\* the signals after the end are in the sequence that holds the grouping.

RECURSIVE SignalsOf(_)
SignalsOf(lines) ==
    IF lines = <<>> THEN <<>>
    ELSE <<SignalEventOf(Head(lines))>> \o SignalsOf(Tail(lines))

RECURSIVE CasesOf(_, _)
CasesOf(lines, cases) ==
    IF lines = <<>> THEN cases
    ELSE LET l == Head(lines)
         IN IF l = lnElse
            THEN CasesOf(Tail(lines),
                         Append(cases, [caption |-> LabelOf(l), events |-> <<>>]))
            ELSE CasesOf(Tail(lines),
                         [cases EXCEPT ![Len(cases)].events =
                                          Append(@, SignalEventOf(l))])

\* signals, then the grouping opened at line k and closed at line m, then signals
GroupingShape(k, m) ==
    /\ k < m
    /\ script[k] = lnAlt
    /\ script[m] = lnEnd
    /\ \A i \in 1..(k-1) : IsSignal(script[i])
    /\ \A i \in (k+1)..(m-1) : IsSignal(script[i]) \/ script[i] = lnElse
    /\ \A i \in (m+1)..Len(script) : IsSignal(script[i])

GroupingOf(k, m) ==
    [type |-> kwAlt,
     cases |-> CasesOf(SubSeq(script, k + 1, m - 1),
                       <<[caption |-> LabelOf(script[k]), events |-> <<>>]>>)]

C5_ElseCasesInOrder ==
    \A k, m \in 1..Len(script) :
        (BeforeLayout /\ GroupingShape(k, m)) =>
            /\ ~ParseRaised
            /\ events = SignalsOf(SubSeq(script, 1, k - 1))
                          \o <<GroupingOf(k, m)>>
                          \o SignalsOf(SubSeq(script, m + 1, Len(script)))

\* two cases with one signal each, and a signal after the end
C5_Witness ==
    /\ script = <<lnAlt, lnSigAB, lnElse, lnSigAB, lnEnd, lnSigAB>>
    /\ Len(events) = 2
    /\ Len(events[1].cases) = 2

---------------------------------------------------------------------------
\* C6: after a block annotation is opened (annotation line without ':'),
\* every line up to the first line whose command is end is appended to the
\* caption as trimmed line + newline; none of them creates an event or an
\* actor or changes the stack, and the caption is l1 \n ... lk \n.

RECURSIVE JoinLines(_)
JoinLines(lines) ==
    IF lines = <<>> THEN <<>>
    ELSE trim(Head(lines)) \o <<"\n">> \o JoinLines(Tail(lines))

\* line k opens a block annotation: it is read as a command (the lines before
\* it leave an event sequence on top of the stack) and it has no ':'
OpensBlock(k) ==
    LET before == parseScriptToArrays(SubSeq(script, 1, k - 1))
    IN /\ includes(annotations, CommandOf(script[k]))
       /\ ~HasColon(script[k])
       /\ ~before.raised
       /\ IsArrayRef(top(before.eventStack))

C6_BlockCollectsLines ==
    \A k \in 1..Len(script) :
        (/\ BeforeLayout
         /\ OpensBlock(k)
         /\ \A i \in (k+1)..Len(script) : CommandOf(script[i]) # kwEnd)
        => LET opened == parseScriptToArrays(SubSeq(script, 1, k))
               ref == top(opened.eventStack)
               note == GetInArr(opened.events, ref)
           IN /\ ~ParseRaised
              /\ actors = opened.actors
              /\ eventStack = opened.eventStack
              /\ note.caption = <<>>
              /\ events = SetInArr(opened.events, ref,
                            [note EXCEPT !.caption =
                                JoinLines(SubSeq(script, k + 1, Len(script)))])

\* a keyword line and a blank line were collected as text
C6_Witness ==
    /\ script = <<lnNoteBlock, lnAlt, lnBlank>>
    /\ actors = <<>>
    /\ Len(events) = 1
    /\ Len(eventStack) = 2

---------------------------------------------------------------------------
\* C7: for every signal of the event tree the actors list holds an actor
\* whose caption is the source and one whose caption is the destination, and
\* a bare participant is only ever appended for a caption that no earlier
\* actor has (so a name is auto-created at most once).

IsBare(a) == "alias" \notin DOMAIN a

C7_SignalActorsExist ==
    LET all == AllEvents(events)
    IN /\ \A i \in 1..Len(all) :
            all[i].type = kwSignal =>
                FindActor(actors, all[i].src) /\ FindActor(actors, all[i].dest)
       /\ \A i \in 1..Len(actors) :
            IsBare(actors[i]) =>
                \A j \in 1..(i-1) : actors[j].caption # actors[i].caption

\* a name used by two signals and by both ends of a self-signal
C7_Witness ==
    /\ script = <<lnSigAB, lnSelf, lnSigAB>>
    /\ Len(events) = 3
    /\ Len(actors) = 2

---------------------------------------------------------------------------
\* C8: a signal that names a declared actor by its alias (participant Alice
\* as A, then A->B: hi) refers to the declared actor: no actor is created
\* for the alias, and layout places the signal on the declared actor's lane.

C8_AliasNamesDeclaredActor ==
    (\E i, j \in 1..Len(script) :
        i < j /\ script[i] = lnDeclareAlias /\ script[j] = lnSigAB)
    => /\ \A k \in 1..Len(actors) : actors[k].caption # <<"A">>
       /\ pc = "placed" =>
            \A k \in 1..Len(events) :
                (events[k].type = kwSignal /\ events[k].src = <<"A">>) =>
                    \E a \in 1..Len(actors) :
                        /\ ~IsBare(actors[a])
                        /\ actors[a].alias = <<"A">>
                        /\ events[k].startX = actors[a].lineX

---------------------------------------------------------------------------
\* C9: a single-line annotation (a caption follows the ':') whose location
\* names an actor that is not in the actors list adds no actor; layout
\* completes, and after it the annotation has no x, y, width or height and
\* the actors' geometry and the canvas width and height are those of the
\* script without that line.

\* the script without its line k
WithoutLine(k) == SubSeq(script, 1, k - 1) \o SubSeq(script, k + 1, Len(script))

\* the actor an annotation line names: the third word before the ':'
LocationOf(line) ==
    At(split(At(split(Text(trim(line)), <<":">>), 1), <<" ">>), 3)

\* line k is read as an annotation command, not collected as text
ReadAsAnnotation(k) ==
    /\ includes(annotations, CommandOf(script[k]))
    /\ LET before == parseScriptToArrays(SubSeq(script, 1, k - 1))
       IN ~before.raised /\ IsArrayRef(top(before.eventStack))

\* a single-line annotation: a caption follows the ':'
HasCaption(line) ==
    HasColon(line) /\ trim(sliceFrom(line, indexOf(line, ":") + 1)) # <<>>

\* line k is a single-line annotation that names an actor not in the list
NamesUnknownActor(k) ==
    /\ ReadAsAnnotation(k)
    /\ HasCaption(script[k])
    /\ LocationOf(script[k]) # Undef
    /\ ~FindActor(actors, LocationOf(script[k]))

HasGeometry(e) == {"x", "y", "width", "height"} \cap DOMAIN e # {}

\* the parsed and laid-out script without line k is the one with it, but for
\* the annotation itself
SameAsWithout(k) ==
    LET name == LocationOf(script[k])
        parsed == parseScriptToArrays(WithoutLine(k))
        placed == calculatePlacements(parsed.actors, parsed.events, sizesAscii)
        all == AllEvents(events)
    IN /\ ~parsed.raised
       /\ ~placed.raised
       /\ actors = placed.actors
       /\ canvas = [width |-> placed.width, height |-> placed.height]
       /\ \A i \in 1..Len(all) :
            (includes(annotations, all[i].type) /\ all[i].src = name)
                => ~HasGeometry(all[i])

C9_UnknownActorAnnotation ==
    \A k \in 1..Len(script) :
        NamesUnknownActor(k) =>
            /\ (pc = "parsed" => ~raised)
            /\ (pc = "placed" => SameAsWithout(k))

---------------------------------------------------------------------------
\* C10: a line that reaches signal parsing and lacks the caption after ':',
\* the '->', or the text on either side of '->' is dropped: no event is
\* appended and no actor is created.

\* the line lacks one of the parts of <source> -> <destination>: <caption>
LacksPart(line) ==
    LET cs == splitOnColonEscaped(trim(line))
        sd == split(cs[1], <<"-", ">">>)
    IN \/ trim(cs[2]) = <<>>
       \/ Len(sd) < 2
       \/ trim(sd[1]) = <<>>
       \/ trim(sd[2]) = <<>>

C10_IncompleteSignalDropped ==
    [][\A line \in {lnNoSrc, lnNoDest, lnBlankDest, lnNoCaption, lnNoColon, lnNoArrow} :
          (LacksPart(line) /\ script' = Append(script, line))
             => UNCHANGED <<actors, events>>]_vars

---------------------------------------------------------------------------
\* C11: for every parsed signal, dotted is true exactly when the text before
\* '->' ends with '-', and open exactly when the text after '->' begins with
\* '>'; the flags are independent, and the '-' and '>' are not part of the
\* stored actor names.

\* the position of the first '->' of a line and of its ':' (0 when absent)
ArrowAt(line) ==
    IF \E i \in 1..(Len(line) - 1) : line[i] = "-" /\ line[i + 1] = ">"
    THEN CHOOSE i \in 1..(Len(line) - 1) :
            /\ line[i] = "-" /\ line[i + 1] = ">"
            /\ \A j \in 1..(i - 1) : ~(line[j] = "-" /\ line[j + 1] = ">")
    ELSE 0
ColonAt(line) ==
    IF HasColon(line)
    THEN CHOOSE i \in 1..Len(line) :
            line[i] = ":" /\ \A j \in 1..(i - 1) : line[j] # ":"
    ELSE 0

\* the text before the '->', and the text between the '->' and the ':'
BeforeArrow(line) == trim(SubSeq(line, 1, ArrowAt(line) - 1))
AfterArrow(line) == trim(SubSeq(line, ArrowAt(line) + 2, ColonAt(line) - 1))

\* a signal line of the model: source, '->', destination, ':', caption
IsArrowLine(line) ==
    /\ 0 < ArrowAt(line) /\ ArrowAt(line) < ColonAt(line)
    /\ BeforeArrow(line) # <<>> /\ AfterArrow(line) # <<>>
    /\ trim(SubSeq(line, ColonAt(line) + 1, Len(line))) # <<>>

EndsWithDash(s) == s # <<>> /\ s[Len(s)] = "-"
BeginsWithAngle(s) == s # <<>> /\ s[1] = ">"

C11_ArrowFlags ==
    [][\A line \in Lines(profile) :
          (/\ IsArrowLine(line)
           /\ IsArrayRef(top(eventStack))
           /\ script' = Append(script, line))
          => LET ref == top(eventStack)
                 seq == GetInArr(events', ref)
                 sig == seq[Len(GetInArr(events, ref)) + 1]
                 src == BeforeArrow(line)
                 dest == AfterArrow(line)
             IN /\ ~raised'
                /\ sig.type = kwSignal
                /\ sig.dotted = EndsWithDash(src)
                /\ sig.open = BeginsWithAngle(dest)
                /\ sig.src = (IF EndsWithDash(src)
                              THEN SubSeq(src, 1, Len(src) - 1) ELSE src)
                /\ ~EndsWithDash(sig.src)
                /\ ~BeginsWithAngle(sig.dest)
                /\ \E k \in 0..Len(dest) : sig.dest = SubSeq(dest, k + 1, Len(dest))
                /\ (dest[1] \notin {">", "*", "+", "-"} => sig.dest = dest)
                /\ (dest = <<">", "B">> => sig.dest = <<"B">>)]_vars

\* signals with each of the two flags alone and with both
C11_Witness ==
    /\ \E k \in 1..Len(script) : script[k] = lnDotted
    /\ \E k \in 1..Len(script) : script[k] = lnOpen
    /\ \E k \in 1..Len(script) : script[k] = lnDottedOpen
    /\ Len(events) = 3
    /\ events[1].dotted /\ ~events[1].open
    /\ \E k \in 1..3 : ~events[k].dotted /\ events[k].open

---------------------------------------------------------------------------
\* C12: after layout, for every signal between actors in adjacent lanes the
\* distance between the two lane centres, and for every note with a resolved
\* anchor actor the distance from the anchor lane to the next lane on its
\* right (to the canvas right edge for the last lane), is at least the
\* minimum width of the event's triple, whatever the other triples are.
\* (An event has its width exactly when its triple was recorded.)

\* the lane of a name: the last actor with that caption (0 when none)
LaneOf(name) ==
    IF FindActor(actors, name)
    THEN CHOOSE i \in 1..Len(actors) :
            /\ actors[i].caption = name
            /\ \A j \in (i + 1)..Len(actors) : actors[j].caption # name
    ELSE 0

\* a <= b, of rationals
QLeq(a, b) == ~QLess(b, a)

\* the width of the widest line of a caption
CaptionWidth(caption) == calculateTextDimensionsAscii(caption).width

C12_AdjacentLanesWideEnough ==
    pc = "placed" =>
        LET all == AllEvents(events)
        IN \A i \in 1..Len(all) :
             LET ev == all[i]
                 l1 == LaneOf(ev.src)
             IN /\ (/\ ev.type = kwSignal
                    /\ "width" \in DOMAIN ev
                    /\ (LaneOf(ev.dest) = l1 + 1 \/ LaneOf(ev.dest) + 1 = l1))
                   => LET l2 == LaneOf(ev.dest)
                          lo == Min(l1, l2)
                      IN QLeq(QInt(CaptionWidth(ev.caption) + 2 * sizesAscii.padding),
                              QSub(actors[lo + 1].lineX, actors[lo].lineX))
                /\ (ev.type = kwNote /\ "width" \in DOMAIN ev /\ l1 > 0)
                   => LET right == IF l1 < Len(actors) THEN actors[l1 + 1].lineX
                                   ELSE canvas.width
                      IN QLeq(QInt(CaptionWidth(ev.caption) + 4 * sizesAscii.padding),
                              QSub(right, actors[l1].lineX))

\* an adjacent signal whose caption needs more than the default gap is laid
\* out before a signal that spans both gaps and a shorter adjacent signal
C12_Witness ==
    /\ pc = "placed"
    /\ script = <<lnSigBA, lnSigACWide, lnSigAB>>
    /\ QLess(QInt(5), QSub(actors[2].lineX, actors[1].lineX))

---------------------------------------------------------------------------
\* C13: layout descends into every case of every conditional grouping of
\* every kind (alt, opt, loop, par, seq) at any depth: each signal between
\* resolved actors nested in such groupings has its text size (its triple
\* was recorded) and its startX, endX, startY and endY.

\* the events at the top level and in the cases of conditional groupings
RECURSIVE GroupedEvents(_), GroupedCaseEvents(_)
GroupedEvents(arr) ==
    IF arr = <<>> THEN <<>>
    ELSE LET ev == Head(arr)
             inner == IF includes(conditionalGroupings, ev.type)
                      THEN GroupedCaseEvents(ev.cases) ELSE <<>>
         IN <<ev>> \o inner \o GroupedEvents(Tail(arr))
GroupedCaseEvents(cases) ==
    IF cases = <<>> THEN <<>>
    ELSE GroupedEvents(Head(cases).events) \o GroupedCaseEvents(Tail(cases))

C13_LayoutDescendsEveryKind ==
    pc = "placed" =>
        LET all == GroupedEvents(events)
        IN \A i \in 1..Len(all) :
             (/\ all[i].type = kwSignal
              /\ FindActor(actors, all[i].src)
              /\ FindActor(actors, all[i].dest))
             => {"width", "height", "startX", "endX", "startY", "endY"}
                    \subseteq DOMAIN all[i]

---------------------------------------------------------------------------
\* C14: a second run of calculatePlacements on the same actors and events
\* with the same sizes gives the same canvas width and height and the same
\* geometry on every actor and event as the first run, and does not raise.
C14_SecondLayoutSame ==
    [][(pc = "placed" /\ pc' = "placedAgain")
         => (UNCHANGED <<actors, events, canvas>> /\ ~raised')]_vars

\* the second run was made on a layout with widened gaps, a note and a
\* self-signal
C14_Witness ==
    /\ pc = "placedAgain"
    /\ script = <<lnSigACWide, lnNoteCLong, lnSelf>>
    /\ Len(actors) = 3
    /\ "x" \in DOMAIN events[2]

---------------------------------------------------------------------------
\* C15: every signal whose source and destination are the same actor has,
\* after layout, startX = endX = that actor's lane centre, and the renderer
\* draws it as a loop-back shape, not as a straight line.

\* layout has completed
AfterLayout == pc \in {"placed", "placedAgain", "rendered"}

C15_SelfSignalLoop ==
    LET all == GroupedEvents(events)
    IN \A i \in 1..Len(all) :
         (all[i].type = kwSignal /\ all[i].src = all[i].dest) =>
            /\ AfterLayout =>
                  /\ {"startX", "endX"} \subseteq DOMAIN all[i]
                  /\ all[i].startX = actors[LaneOf(all[i].src)].lineX
                  /\ all[i].endX = all[i].startX
            /\ pc = "rendered" =>
                  \E k \in 1..Len(drawn) :
                      /\ drawn[k].kind = "selfArrow"
                      /\ drawn[k].caption = all[i].caption

---------------------------------------------------------------------------
\* C16: an annotation that received no geometry (its location actor is
\* unknown) is skipped by the renderer: rendering a laid-out script that
\* holds such an annotation does not raise, and nothing is drawn for it.

\* the annotations of the tree that layout left without geometry because no
\* actor has the name of their location
Unplaced ==
    LET all == AllEvents(events)
    IN {i \in 1..Len(all) :
          /\ includes(annotations, all[i].type)
          /\ ~FindActor(actors, all[i].src)
          /\ ~HasGeometry(all[i])}

C16_UnplacedAnnotationSkipped ==
    LET all == AllEvents(events)
    IN \A i \in Unplaced :
         /\ pc = "placed" => ~raised
         /\ pc = "rendered" =>
               \A k \in 1..Len(drawn) :
                   ~(drawn[k].kind = "noteBox" /\ drawn[k].caption = all[i].caption)

---------------------------------------------------------------------------
\* C17: an end that closes a conditional grouping nested in a case of
\* another conditional grouping removes both of its frames (case sequence
\* and wrapper), leaving the enclosing case on top; the next event is then
\* appended to that case and a following else adds a case to the outer
\* grouping.  An end that closes a block annotation inside a case removes
\* only the annotation frame.

\* frame i of the stack is the sequence of a case of the conditional
\* grouping in frame i - 1
IsCaseFrame(i) ==
    /\ i >= 3
    /\ ~IsArrayRef(eventStack[i - 1])
    /\ includes(conditionalGroupings, typeOf(events, eventStack[i - 1]))
    /\ Len(eventStack[i]) = Len(eventStack[i - 1]) + 1
    /\ SubSeq(eventStack[i], 1, Len(eventStack[i - 1])) = eventStack[i - 1]

\* the event in frame i lies in the sequence in frame i - 1
LiesInFrameBelow(i) ==
    /\ i >= 2
    /\ eventStack[i - 1] = SubSeq(eventStack[i], 1, Len(eventStack[i]) - 1)

C17_NestedEndPopsBoth ==
    [][LET n == Len(eventStack)
       IN /\ (/\ script' = Append(script, lnEnd)
               /\ IsCaseFrame(n) /\ LiesInFrameBelow(n - 1) /\ IsCaseFrame(n - 2))
              => /\ eventStack' = SubSeq(eventStack, 1, n - 2)
                 /\ UNCHANGED <<events, actors>> /\ ~raised'
          /\ (/\ script' = Append(script, lnEnd)
               /\ ~IsArrayRef(eventStack[n])
               /\ includes(annotations, typeOf(events, eventStack[n]))
               /\ LiesInFrameBelow(n) /\ IsCaseFrame(n - 1))
              => /\ eventStack' = SubSeq(eventStack, 1, n - 1)
                 /\ UNCHANGED <<events, actors>> /\ ~raised'
          /\ (script' = Append(script, lnSigAB) /\ IsCaseFrame(n))
              => /\ eventStack' = eventStack
                 /\ events' = SetInArr(events, eventStack[n],
                                  Append(GetInArr(events, eventStack[n]),
                                         SignalEventOf(lnSigAB)))
          /\ (script' = Append(script, lnElse) /\ IsCaseFrame(n))
              => LET alt == GetInArr(events, eventStack[n - 1])
                     k == Len(alt.cases) + 1
                 IN /\ eventStack' = Append(SubSeq(eventStack, 1, n - 1),
                                           Append(eventStack[n - 1], k))
                    /\ events' = SetInArr(events, eventStack[n - 1],
                                     [alt EXCEPT !.cases =
                                         Append(@, [caption |-> LabelOf(lnElse),
                                                    events |-> <<>>])])]_vars

\* a grouping in the first case of a grouping was closed, and the else
\* after it gave the outer grouping its second case
C17_Witness ==
    /\ script = <<lnAlt, lnAlt, lnEnd, lnElse>>
    /\ Len(events) = 1
    /\ Len(events[1].cases) = 2
    /\ Len(events[1].cases[1].events[1].cases) = 1
    /\ eventStack = <<<<>>, <<1>>, <<1, 2>>>>

---------------------------------------------------------------------------
\* C18: a synchrony grouping (parallel, serial) is closed equally by end and
\* by }: from the same parser state either line gives the same parser state,
\* whose stack has lost the grouping's frame, and the next event is appended
\* to the sequence that holds the grouping (the root or a case).

\* the top frame of the stack of st is the sequence of a synchrony grouping
SynchronyOnTop(st) ==
    LET n == Len(st.eventStack)
        ref == st.eventStack[n]
    IN /\ ~st.raised
       /\ n >= 2
       /\ IsArrayRef(ref) /\ ref # <<>>
       /\ includes(synchrony, typeOf(st.events, SubSeq(ref, 1, Len(ref) - 1)))

C18_EndAndBraceCloseSynchrony ==
    (/\ pc = "parse"
     /\ script # <<>>
     /\ script[Len(script)] \in {lnEnd, lnBrace}
     /\ SynchronyOnTop(parseScriptToArrays(SubSeq(script, 1, Len(script) - 1))))
    => LET before == parseScriptToArrays(SubSeq(script, 1, Len(script) - 1))
           closer == IF script[Len(script)] = lnEnd THEN lnBrace ELSE lnEnd
           ref == top(before.eventStack)
           holder == SubSeq(ref, 1, Len(ref) - 2)
       IN /\ ParserState = parseLine(before, closer)
          /\ eventStack = SubSeq(before.eventStack, 1, Len(before.eventStack) - 1)
          /\ top(eventStack) = holder
          /\ events = before.events
          /\ parseLine(ParserState, lnSigAB).events =
                SetInArr(events, holder,
                         Append(GetInArr(events, holder), SignalEventOf(lnSigAB)))

\* a synchrony grouping in a case of a conditional grouping was closed by }
\* and a signal was read after it
C18_Witness ==
    /\ script = <<lnAlt, lnParallel, lnBrace, lnSigAB>>
    /\ Len(eventStack) = 3
    /\ Len(events[1].cases[1].events) = 2
    /\ events[1].cases[1].events[1].type = kwParallel
    /\ events[1].cases[1].events[2].type = kwSignal

---------------------------------------------------------------------------
\* C19: the caption of a single-line annotation is all the text after the
\* first ':' of the line, trimmed; later ':' characters belong to the
\* caption ("note right of A: a:b" has the caption "a:b").

\* the script read so far without its last line, parsed
BeforeLastLine == parseScriptToArrays(SubSeq(script, 1, Len(script) - 1))

\* the last line read was read as an annotation command
LastLineIsAnnotation ==
    /\ pc = "parse"
    /\ script # <<>>
    /\ ReadAsAnnotation(Len(script))

\* the event the last line appended to the sequence that was on top
LastLineEvent == GetInArr(events, LastPushed([BeforeLastLine EXCEPT !.events = events]))

C19_CaptionIsTextAfterFirstColon ==
    (LastLineIsAnnotation /\ HasCaption(script[Len(script)]))
    => LET line == script[Len(script)]
       IN LastLineEvent.caption = trim(sliceFrom(line, indexOf(line, ":") + 1))

---------------------------------------------------------------------------
\* C20: an annotation line pushes its annotation onto the stack (multi-line
\* mode) if and only if the line has no ':'; a line with a ':', even with
\* nothing after it ("note right of A:"), leaves the stack as it was.

C20_MultilineIffNoColon ==
    LastLineIsAnnotation
    => LET before == BeforeLastLine
           note == LastPushed([before EXCEPT !.events = events])
       IN IF HasColon(script[Len(script)])
          THEN eventStack = before.eventStack
          ELSE eventStack = Append(before.eventStack, note)

---------------------------------------------------------------------------
\* C21: for a line that is a keyword only, with no space and no label (bare
\* loop, opt, alt, else, autonumber), the rest text is empty, so the case
\* caption (or the numbering start) stored for it is the empty string.

\* the line is a keyword alone
IsKeywordOnly(line) == indexOf(trim(line), " ") = -1

\* the last line read was read as a command: no block annotation was open
LastLineIsCommand ==
    /\ pc = "parse"
    /\ ~raised
    /\ script # <<>>
    /\ ~BeforeLastLine.raised
    /\ ~includes(annotations,
                 typeOf(BeforeLastLine.events, top(BeforeLastLine.eventStack)))

\* the case on top of the stack: the one the last line opened
TopCase ==
    LET ref == top(eventStack)
    IN GetInArr(events, SubSeq(ref, 1, Len(ref) - 1)).cases[ref[Len(ref)]]

C21_BareKeywordEmptyText ==
    (LastLineIsCommand /\ IsKeywordOnly(script[Len(script)]))
    => LET command == CommandOf(script[Len(script)])
           before == BeforeLastLine
       IN /\ includes(conditionalGroupings, command)
                => TopCase.caption = <<>>
          /\ (/\ command = kwElse
              /\ includes(conditionalGroupings,
                          typeOf(before.events, top(GuardedPop(before.eventStack)))))
                => TopCase.caption = <<>>
          /\ command = kwAutonumber => LastLineEvent.start = <<>>

---------------------------------------------------------------------------
\* C22: the destination prefixes are stripped in the fixed order '>', '*',
\* '+', '-', each optional, so "+-" sets both activation and deactivation;
\* the signal event is appended first and is followed at once, in the same
\* sequence, by an activate event (if '+') and then a deactivate event (if
\* '-'), both naming the stripped destination, and the actor created for the
\* destination has the stripped name.

Fronted(s, c) == s # <<>> /\ s[1] = c
StripFront(s, c) == IF Fronted(s, c) THEN Tail(s) ELSE s

\* what is left of a destination after '>' and '*', and after '+' as well
AfterOpenNew(d) == StripFront(StripFront(d, ">"), "*")
AfterPlus(d) == StripFront(AfterOpenNew(d), "+")
HasPlus(d) == Fronted(AfterOpenNew(d), "+")
HasMinus(d) == Fronted(AfterPlus(d), "-")
StrippedName(d) == StripFront(AfterPlus(d), "-")

C22_DestinationPrefixes ==
    [][\A line \in Lines(profile) :
          (/\ IsArrowLine(line)
           /\ IsArrayRef(top(eventStack))
           /\ script' = Append(script, line))
          => LET ref == top(eventStack)
                 old == GetInArr(events, ref)
                 new == GetInArr(events', ref)
                 d == AfterArrow(line)
                 name == StrippedName(d)
                 implicit ==
                    (IF HasPlus(d)
                     THEN <<[type |-> kwActivate, src |-> name]>> ELSE <<>>)
                    \o (IF HasMinus(d)
                        THEN <<[type |-> kwDeactivate, src |-> name]>> ELSE <<>>)
             IN /\ ~raised'
                /\ Len(new) = Len(old) + 1 + Len(implicit)
                /\ SubSeq(new, 1, Len(old)) = old
                /\ new[Len(old) + 1].type = kwSignal
                /\ new[Len(old) + 1].dest = name
                /\ SubSeq(new, Len(old) + 2, Len(new)) = implicit
                /\ FindActor(actors', name)
                /\ \A i \in (Len(actors) + 1)..Len(actors') :
                        actors'[i].caption \in {new[Len(old) + 1].src, name}]_vars

\* a destination with all four prefixes was read inside a grouping after a
\* plain signal: the signal, then activate, then deactivate, all for B
C22_Witness ==
    /\ script = <<lnAlt, lnSigAB, lnAllPrefixes>>
    /\ Len(events[1].cases[1].events) = 4
    /\ events[1].cases[1].events[2].dest = <<"B">>
    /\ events[1].cases[1].events[2].open
    /\ events[1].cases[1].events[3] = [type |-> kwActivate, src |-> <<"B">>]
    /\ events[1].cases[1].events[4] = [type |-> kwDeactivate, src |-> <<"B">>]
    /\ Len(actors) = 2

---------------------------------------------------------------------------
\* C23: after layout, for every signal whose source and destination lanes
\* are two or more lanes apart, the distance between the two lane centres is
\* at least the signal's required width (the width of its caption plus
\* twice the padding), for any actor widths.

QAbs(a) == IF a.n < 0 THEN [n |-> -a.n, d |-> a.d] ELSE a

C23_DistantLanesWideEnough ==
    pc = "placed" =>
        LET all == AllEvents(events)
        IN \A i \in 1..Len(all) :
             LET ev == all[i]
             IN (/\ ev.type = kwSignal
                 /\ "startX" \in DOMAIN ev
                 /\ (LaneOf(ev.src) >= LaneOf(ev.dest) + 2
                     \/ LaneOf(ev.dest) >= LaneOf(ev.src) + 2))
                => QLeq(QInt(CaptionWidth(ev.caption) + 2 * sizesAscii.padding),
                        QAbs(QSub(ev.endX, ev.startX)))

---------------------------------------------------------------------------
\* C24: for an alt grouping placed at cursor Y0: x = 0, y = Y0, width is the
\* canvas width, each case's height is the cursor advance of laying out that
\* case's events, the grouping's height is altMinHeight plus the sum of its
\* case heights, and the cursor after the grouping is Y0 + altMarginItems +
\* the sum of the case heights + altMarginBottom; recursively for nested
\* groupings.

\* the sum of the heights of cases
RECURSIVE CasesHeight(_)
CasesHeight(cases) ==
    IF cases = <<>> THEN 0 ELSE Head(cases).height + CasesHeight(Tail(cases))

\* by how much an event that was laid out moves the cursor
AdvanceOf(ev) ==
    IF ev.type = kwSignal /\ "height" \in DOMAIN ev
    THEN sizesAscii.signalMargin + ev.height
    ELSE IF ev.type = kwNote /\ "height" \in DOMAIN ev
    THEN sizesAscii.noteMarginY + ev.height
    ELSE IF ev.type = kwAlt
    THEN sizesAscii.altMarginItems + CasesHeight(ev.cases)
         + sizesAscii.altMarginBottom
    ELSE 0

\* the cursor advance of a sequence of events
RECURSIVE Advance(_)
Advance(seq) == IF seq = <<>> THEN 0 ELSE AdvanceOf(Head(seq)) + Advance(Tail(seq))

\* every alt grouping of seq, which is laid out from cursor y0, and every alt
\* grouping nested in one, has the geometry of the claim
RECURSIVE AltGeometry(_, _)
AltGeometry(seq, y0) ==
    \A i \in 1..Len(seq) :
        LET ev == seq[i]
            Y0 == y0 + Advance(SubSeq(seq, 1, i - 1))
        IN /\ (ev.type = kwSignal /\ "height" \in DOMAIN ev) => ev.startY = Y0
           /\ (ev.type = kwNote /\ "height" \in DOMAIN ev) => ev.y = Y0
           /\ ev.type = kwAlt =>
                /\ ev.x = 0
                /\ ev.y = Y0
                /\ ev.width = canvas.width
                /\ ev.height = sizesAscii.altMinHeight + CasesHeight(ev.cases)
                /\ \A c \in 1..Len(ev.cases) :
                     /\ ev.cases[c].height = Advance(ev.cases[c].events)
                     /\ AltGeometry(ev.cases[c].events,
                                    Y0 + sizesAscii.altMarginItems
                                       + CasesHeight(SubSeq(ev.cases, 1, c - 1)))

\* the cursor at the first event: below the tallest actor box
FirstCursor ==
    LET heights == {actors[i].height : i \in 1..Len(actors)} \cup {0}
    IN (CHOOSE h \in heights : \A g \in heights : g <= h)
       + 2 * sizesAscii.padding + 1

C24_AltGeometry ==
    pc = "placed" =>
        /\ AltGeometry(events, FirstCursor)
        /\ canvas.height = FirstCursor + Advance(events)

\* an alt grouping with two cases, the first holding a nested alt grouping
\* and a signal, was laid out and is followed by a signal
C24_Witness ==
    /\ pc = "placed"
    /\ script = <<lnAlt, lnAlt, lnEnd, lnSigAB, lnElse, lnSigAB>>
    /\ Len(events) = 1
    /\ Len(events[1].cases) = 2
    /\ events[1].cases[1].events[1].type = kwAlt
    /\ events[1].cases[1].height > events[1].cases[2].height
    /\ events[1].cases[2].height > 0

---------------------------------------------------------------------------
\* C25: after layout every actor's lane bottom (lineY) is the final event
\* cursor, which is also the returned canvas height, and the returned canvas
\* width is the sum of all N+1 gaps (the running X offset after the last
\* actor).

\* the gaps of the parsed actors and events after both passes
FinalGaps ==
    LET sized == actorSizes(actors, sizesAscii)
        lanes == calculateLaneGapsAndTextSize(sized, events, sizesAscii)
    IN distributePass(contiguousPass(actorGaps(sized, sizesAscii), lanes.gaps),
                      lanes.gaps)

\* the sum of the gaps from gaps[j] to the last
RECURSIVE SumGapsFrom(_, _)
SumGapsFrom(gaps, j) ==
    IF j \notin DOMAIN gaps THEN QInt(0)
    ELSE QAdd(gaps[j], SumGapsFrom(gaps, j + 1))

C25_CanvasAndLaneBottoms ==
    [][(pc = "parsed" /\ pc' = "placed")
       => /\ canvas'.width = SumGapsFrom(FinalGaps, 0)
          /\ Len(actors) >= 1 =>
                canvas'.width = QAdd(actors'[Len(actors)].lineX,
                                     FinalGaps[Len(actors)])
          /\ canvas'.height = FirstCursor' + Advance(events')
          /\ \A i \in 1..Len(actors') : actors'[i].lineY = canvas'.height]_vars

\* three actors, a gap widened by a caption, and two events were laid out
C25_Witness ==
    /\ pc = "placed"
    /\ script = <<lnSigBCLong, lnSigAB>>
    /\ Len(actors) = 3
    /\ \A i \in 1..3 : actors[i].lineY = canvas.height
    /\ canvas.height > FirstCursor
    /\ canvas.width = QInt(20)

---------------------------------------------------------------------------
\* C26: after any line of any script the top of the nesting stack accepts
\* events: it is an event sequence (the root, a case's sequence or a
\* synchrony grouping's sequence) or a block annotation being collected,
\* never the wrapper object of a conditional grouping.

\* the kind of thing a reference leads to
IsSequenceRef(ref) ==
    \/ ref = <<>>
    \/ /\ IsArrayRef(ref)
       /\ LET holder == typeOf(events, SubSeq(ref, 1, Len(ref) - 1))
          IN includes(conditionalGroupings, holder) \/ includes(synchrony, holder)

C26_TopAcceptsEvents ==
    (pc = "parse" /\ ~raised) =>
        /\ \/ IsSequenceRef(top(eventStack))
           \/ includes(annotations, typeOf(events, top(eventStack)))
        /\ ~includes(conditionalGroupings, typeOf(events, top(eventStack)))

---------------------------------------------------------------------------
\* C27: after layout (the measurer is non-negative and padding > 0) the lane
\* centres strictly increase with the actor index, so two distinct lanes
\* never share an X and only self-signals have startX = endX; adjacent actor
\* boxes do not overlap (x[i] + width[i] + 2 * padding <= x[i+1]); the first
\* box's left edge is at least padding and the last box's right edge plus
\* padding is at most the canvas width.

\* the right edge of the box of actor i
RightEdge(i) == QAdd(actors[i].x, QInt(actors[i].width))

C27_LanesOrderedBoxesApart ==
    pc = "placed" =>
        LET N == Len(actors)
            all == AllEvents(events)
            pad == QInt(sizesAscii.padding)
        IN /\ \A i \in 1..(N - 1) :
                /\ QLess(actors[i].lineX, actors[i + 1].lineX)
                /\ QLeq(QAdd(RightEdge(i), QAdd(pad, pad)), actors[i + 1].x)
           /\ \A i \in 1..N : \A j \in 1..N :
                actors[i].lineX = actors[j].lineX => i = j
           /\ N >= 1 =>
                /\ QLeq(pad, actors[1].x)
                /\ QLeq(QAdd(RightEdge(N), pad), canvas.width)
           /\ \A k \in 1..Len(all) :
                (/\ all[k].type = kwSignal
                 /\ "startX" \in DOMAIN all[k]
                 /\ all[k].startX = all[k].endX)
                => LaneOf(all[k].src) = LaneOf(all[k].dest)

\* a declared actor, a second actor and a self-signal were laid out
C27_Witness ==
    /\ pc = "placed"
    /\ script = <<lnDeclareAlias, lnSigAB, lnSelf>>
    /\ Len(actors) = 3
    /\ events[2].startX = events[2].endX
    /\ events[1].startX # events[1].endX

---------------------------------------------------------------------------
\* C28: after layout the Y values of the events that received geometry
\* increase strictly in depth-first script order (a grouping's Y is smaller
\* than the Y of every event nested in it); every such Y is below every
\* actor box (Y > actor.y + actor.height) and at most the canvas height; the
\* events that receive no geometry (lifetime markers, autonumber, unresolved
\* annotations) do not advance the cursor.

\* the event received a vertical position, and that position
HasY(ev) == "startY" \in DOMAIN ev \/ "y" \in DOMAIN ev
YOf(ev) == IF "startY" \in DOMAIN ev THEN ev.startY ELSE ev.y

\* the tree without the events that received no geometry
RECURSIVE GeometryOnly(_), GeometryOnlyCases(_)
GeometryOnly(seq) ==
    IF seq = <<>> THEN <<>>
    ELSE LET ev == Head(seq)
         IN (IF ~HasY(ev) THEN <<>>
             ELSE IF ev.type = kwAlt
                  THEN <<[ev EXCEPT !.cases = GeometryOnlyCases(@)]>>
                  ELSE <<ev>>)
            \o GeometryOnly(Tail(seq))
GeometryOnlyCases(cases) ==
    IF cases = <<>> THEN <<>>
    ELSE <<[Head(cases) EXCEPT !.events = GeometryOnly(@)]>>
         \o GeometryOnlyCases(Tail(cases))

C28_VerticalOrder ==
    pc = "placed" =>
        LET all == AllEvents(events)
        IN /\ \A i \in 1..Len(all) : \A j \in (i + 1)..Len(all) :
                (HasY(all[i]) /\ HasY(all[j])) => YOf(all[i]) < YOf(all[j])
           /\ \A i \in 1..Len(all) :
                HasY(all[i]) =>
                    /\ YOf(all[i]) <= canvas.height
                    /\ \A a \in 1..Len(actors) :
                          YOf(all[i]) > actors[a].y + actors[a].height
           /\ \A i \in 1..Len(all) :
                (all[i].type \in {kwActivate, kwDeactivate, kwDestroy, kwAutonumber})
                => ~HasY(all[i])
           /\ \E r \in {calculatePlacements(actors, GeometryOnly(events), sizesAscii)} :
                /\ ~r.raised
                /\ r.height = canvas.height
                /\ r.events = GeometryOnly(events)

\* a grouping holding a signal, an implicit activate event and a second
\* signal was laid out: the second signal lies one signal step below the first
C28_Witness ==
    /\ pc = "placed"
    /\ script = <<lnAlt, lnActivate, lnSigAB>>
    /\ events[1].cases[1].events[2].type = kwActivate
    /\ events[1].y < events[1].cases[1].events[1].startY
    /\ events[1].cases[1].events[3].startY =
         events[1].cases[1].events[1].startY + sizesAscii.signalMargin + 1

---------------------------------------------------------------------------
\* C29: after layout with either built-in set of sizing constants, every
\* note with a resolved anchor actor lies horizontally between its anchor
\* lane and the next lane: note.x is greater than the anchor lane's centre,
\* and note.x + note.width is less than the next lane's centre, or at most
\* the canvas width when the anchor is the last lane.
\* (The measurer of the SVG constants is the platform's getBBox; here both
\* sets of constants are laid out with the character-grid measurer.)

NotesBetweenLanes(acts, evs, width) ==
    LET all == AllEvents(evs)
    IN \A i \in 1..Len(all) :
         (all[i].type = kwNote /\ "x" \in DOMAIN all[i])
         => LET note == all[i]
                lane == LaneOf(note.src)
                right == QAdd(note.x, QInt(note.width))
            IN /\ lane >= 1
               /\ QLess(acts[lane].lineX, note.x)
               /\ IF lane < Len(acts)
                  THEN QLess(right, acts[lane + 1].lineX)
                  ELSE QLeq(right, width)

C29_NotesBetweenLanes ==
    /\ pc = "placed" => NotesBetweenLanes(actors, events, canvas.width)
    /\ (pc = "parsed" /\ ~raised) =>
          \A r \in {calculatePlacements(actors, events, sizesSvg)} :
              ~r.raised => NotesBetweenLanes(r.actors, r.events, r.width)

\* a note anchored on the first of two lanes and a longer note anchored on
\* the last lane were laid out
C29_Witness ==
    /\ pc = "placed"
    /\ script = <<lnSigACWide, lnNoteA, lnNoteCLong>>
    /\ Len(actors) = 2
    /\ QLess(actors[1].lineX, events[2].x)
    /\ QLess(QAdd(events[2].x, QInt(events[2].width)), actors[2].lineX)
    /\ QLess(actors[2].lineX, events[3].x)
    /\ QLeq(QAdd(events[3].x, QInt(events[3].width)), canvas.width)

---------------------------------------------------------------------------
\* C30: in the editor webview, after any sequence of user input events and
\* host messages (update, themeChanged, load) has been handled, the diagram
\* shown is the rendering of the textarea's current text; in particular an
\* update message that changes the textarea also refreshes the diagram.

C30_DiagramShowsEditorText ==
    pc = "webview" => diagram.script = editorValue

=============================================================================
